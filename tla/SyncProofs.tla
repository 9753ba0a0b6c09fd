----------------------------- MODULE SyncProofs -----------------------------
(***************************************************************************)
(* What threads synchronise with: the pipes, and AmigaOS's semaphores.     *)
(*                                                                         *)
(* CommPipe, for every ring size and every Chunks below it: IInv is        *)
(* inductive, and the safety properties of the run are conjuncts of it or  *)
(* follow from it.                                                         *)
(*                                                                         *)
(* AmigaSem, for any set of tasks, any initial value and any number of     *)
(* posts and breaks: what the proxy refers to belongs to a task that waits *)
(* for it, and wake-ups agree with posts.  The argument rests on the       *)
(* proxy's priority: no task moves while the port holds a message, so it   *)
(* holds one at most.  Until DESTROY is handled there is a sequence that   *)
(* the links of the list follow both ways; afterwards there is none, and   *)
(* what the links still keep to (Links) says that the one to go wrong is   *)
(* lh_Head.  The bounds on the count need the number of tasks let through  *)
(* but not yet back: it is what a post adds, one at a time, and what each  *)
(* of them takes from the value.                                           *)
(***************************************************************************)
EXTENDS AmigaSem, CommPipe, FiniteSetTheorems, SequenceTheorems, TLAPS, WellFoundedInduction

\* The step to the next slot stays in the ring.
LEMMA NextSlotType == ASSUME NEW p \in Slots PROVE NextSlot(p) \in Slots
  BY PipeAssumption DEF PipeAssumption, Slots, NextSlot

\* A distance along the ring is less than its size, and zero only to itself.
LEMMA DistType ==
  ASSUME NEW a \in Slots, NEW b \in Slots
  PROVE  Dist(a, b) \in 0 .. Size - 1 /\ (Dist(a, b) = 0 <=> a = b)
  BY PipeAssumption DEF PipeAssumption, Slots, Dist

\* Queueing one more chunk makes the distance one longer ...
LEMMA DistPut ==
  ASSUME NEW a \in Slots, NEW b \in Slots, NextSlot(b) # a
  PROVE  Dist(a, NextSlot(b)) = Dist(a, b) + 1
  BY PipeAssumption DEF PipeAssumption, Slots, Dist, NextSlot

\* ... there is room for it while the distance is short of Size - 1 ...
LEMMA DistRoom ==
  ASSUME NEW a \in Slots, NEW b \in Slots
  PROVE  NextSlot(b) = a <=> Dist(a, b) = Size - 1
  BY PipeAssumption DEF PipeAssumption, Slots, Dist, NextSlot

\* ... and taking one makes it one shorter, for every slot but the one left.
LEMMA DistGet ==
  ASSUME NEW a \in Slots, NEW b \in Slots, a # b
  PROVE  Dist(NextSlot(a), b) = Dist(a, b) - 1
  BY PipeAssumption DEF PipeAssumption, Slots, Dist, NextSlot

\* Once left, a slot is as far away as the ring allows.
LEMMA DistLeft ==
  ASSUME NEW a \in Slots
  PROVE  Dist(NextSlot(a), a) = Size - 1
  BY PipeAssumption DEF PipeAssumption, Slots, Dist, NextSlot

\* Two slots at the same distance are the same slot.
LEMMA DistInjective ==
  ASSUME NEW a \in Slots, NEW p \in Slots, NEW q \in Slots, Dist(a, p) = Dist(a, q)
  PROVE  p = q
  BY PipeAssumption DEF PipeAssumption, Slots, Dist

-----------------------------------------------------------------------------
\* A fresh pipe satisfies the invariant.
LEMMA InitIInv == Init => IInv
<1> SUFFICES ASSUME Init PROVE IInv
  OBVIOUS
<1>1. TypeOK
  BY PipeAssumption DEF PipeAssumption, Init, TypeOK, Slots, WriterPC, ReaderPC
<1>2. Fill = 0
  BY PipeAssumption DEF PipeAssumption, Init, Fill, Dist
<1>3. NothingOverwritten
  BY <1>1, <1>2, DistType DEF NothingOverwritten, Init, TypeOK
<1>4. LockInv /\ WriterInv /\ ReaderInv /\ ReaderSleepInv /\ WriterSleepInv
  BY <1>2, PipeAssumption DEF PipeAssumption, Init, LockInv, WriterInv, ReaderInv,
     ReaderSleepInv, WriterSleepInv, WriterHolds, ReaderHolds, WriterAsleep,
     ReaderAsleep, PolledReadNeverSleeps
<1> QED
  BY <1>1, <1>3, <1>4 DEF IInv

\* Every step of either thread preserves it.
LEMMA NextIInv == IInv /\ [Next]_vars => IInv'
<1> SUFFICES ASSUME IInv, [Next]_vars PROVE IInv'
  OBVIOUS
<1> USE PipeAssumption DEF PipeAssumption
<1>1. CASE WriteBegin
  <2>1. TypeOK'
    BY <1>1, NextSlotType DEF WriteBegin, WGoto, ringVars, flagVars, semVars,
       readerVars, IInv, TypeOK, WriterPC, ReaderPC
  <2>2. LockInv'
    BY <1>1, NextSlotType DEF WriteBegin, WGoto, ringVars, flagVars, semVars,
       readerVars, IInv, LockInv, TypeOK, WriterHolds, ReaderHolds, WriterPC,
       ReaderPC
  <2>3. NothingOverwritten'
    BY <1>1, NextSlotType DEF WriteBegin, WGoto, ringVars, flagVars, semVars,
       readerVars, IInv, NothingOverwritten, TypeOK, Fill, WriterPC, ReaderPC
  <2>4. WriterInv'
    BY <1>1, NextSlotType, DistType, DistPut, DistRoom, DistGet DEF
       WriteBegin, WGoto, ringVars, flagVars, semVars, readerVars, IInv,
       WriterInv, TypeOK, LockInv, ReaderInv, ReaderSleepInv, WriterSleepInv,
       ReaderAsleep, WriterPC, ReaderPC, WriterHolds, ReaderHolds,
       PolledReadNeverSleeps, Fill, WriterAsleep
  <2>5. ReaderInv'
    BY <1>1, NextSlotType DEF WriteBegin, WGoto, ringVars, flagVars, semVars,
       readerVars, IInv, ReaderInv, TypeOK, PolledReadNeverSleeps, WriterPC,
       ReaderPC
  <2>6. ReaderSleepInv'
    BY <1>1, NextSlotType DEF WriteBegin, WGoto, ringVars, flagVars, semVars,
       readerVars, IInv, ReaderSleepInv, TypeOK, ReaderAsleep, Fill,
       WriterPC, ReaderPC
  <2>7. WriterSleepInv'
    BY <1>1, NextSlotType DEF WriteBegin, WGoto, ringVars, flagVars, semVars,
       readerVars, IInv, WriterSleepInv, TypeOK, WriterAsleep, WriterPC,
       ReaderPC
  <2> QED
    BY <2>1, <2>2, <2>3, <2>4, <2>5, <2>6, <2>7 DEF IInv
<1>2. CASE WriteLock
  <2>1. TypeOK'
    BY <1>2 DEF WriteLock, WGoto, ringVars, flagVars, readerVars, IInv,
       TypeOK, WriterPC, ReaderPC
  <2>2. LockInv'
    BY <1>2 DEF WriteLock, WGoto, ringVars, flagVars, readerVars, IInv,
       LockInv, TypeOK, WriterHolds, ReaderHolds, WriterPC, ReaderPC
  <2>3. NothingOverwritten'
    BY <1>2 DEF WriteLock, WGoto, ringVars, flagVars, readerVars, IInv,
       NothingOverwritten, TypeOK, Fill, WriterPC, ReaderPC
  <2>4. WriterInv'
    BY <1>2 DEF WriteLock, WGoto, ringVars, flagVars, readerVars, IInv,
       WriterInv, TypeOK, ReaderAsleep, WriterPC, ReaderPC
  <2>5. ReaderInv'
    BY <1>2 DEF WriteLock, WGoto, ringVars, flagVars, readerVars, IInv,
       ReaderInv, TypeOK, PolledReadNeverSleeps, WriterPC, ReaderPC
  <2>6. ReaderSleepInv'
    BY <1>2 DEF WriteLock, WGoto, ringVars, flagVars, readerVars, IInv,
       ReaderSleepInv, TypeOK, ReaderAsleep, Fill, WriterPC, ReaderPC
  <2>7. WriterSleepInv'
    BY <1>2 DEF WriteLock, WGoto, ringVars, flagVars, readerVars, IInv,
       WriterSleepInv, TypeOK, WriterAsleep, WriterPC, ReaderPC
  <2> QED
    BY <2>1, <2>2, <2>3, <2>4, <2>5, <2>6, <2>7 DEF IInv
<1>3. CASE WriteCheck
  <2>1. TypeOK'
    BY <1>3 DEF WriteCheck, WGoto, ringVars, semVars, readerVars, IInv,
       TypeOK, WriterPC, ReaderPC
  <2>2. LockInv'
    BY <1>3 DEF WriteCheck, WGoto, ringVars, semVars, readerVars, IInv,
       LockInv, TypeOK, WriterHolds, ReaderHolds, WriterPC, ReaderPC
  <2>3. NothingOverwritten'
    BY <1>3 DEF WriteCheck, WGoto, ringVars, semVars, readerVars, IInv,
       NothingOverwritten, TypeOK, Fill, WriterPC, ReaderPC
  <2>4. WriterInv'
    BY <1>3 DEF WriteCheck, WGoto, ringVars, semVars, readerVars, IInv,
       WriterInv, TypeOK, ReaderAsleep, WriterPC, ReaderPC
  <2>5. ReaderInv'
    BY <1>3 DEF WriteCheck, WGoto, ringVars, semVars, readerVars, IInv,
       ReaderInv, TypeOK, PolledReadNeverSleeps, WriterPC, ReaderPC
  <2>6. ReaderSleepInv'
    BY <1>3 DEF WriteCheck, WGoto, ringVars, semVars, readerVars, IInv,
       ReaderSleepInv, TypeOK, ReaderAsleep, Fill, WriterPC, ReaderPC
  <2>7. WriterSleepInv'
    BY <1>3, DistType DEF WriteCheck, WGoto, ringVars, semVars, readerVars,
       IInv, WriterSleepInv, TypeOK, LockInv, WriterInv, WriterAsleep,
       WriterPC, ReaderPC, WriterHolds, ReaderHolds, ReaderAsleep
  <2> QED
    BY <2>1, <2>2, <2>3, <2>4, <2>5, <2>6, <2>7 DEF IInv
<1>4. CASE WriteUnlock
  <2>1. TypeOK'
    BY <1>4, DistType DEF WriteUnlock, WGoto, ringVars, flagVars, readerVars,
       IInv, TypeOK, LockInv, WriterInv, WriterPC, ReaderPC, WriterHolds,
       ReaderHolds, ReaderAsleep
  <2>2. LockInv'
    BY <1>4 DEF WriteUnlock, WGoto, ringVars, flagVars, readerVars, IInv,
       LockInv, TypeOK, WriterHolds, ReaderHolds, WriterPC, ReaderPC
  <2>3. NothingOverwritten'
    BY <1>4 DEF WriteUnlock, WGoto, ringVars, flagVars, readerVars, IInv,
       NothingOverwritten, TypeOK, Fill, WriterPC, ReaderPC
  <2>4. WriterInv'
    BY <1>4 DEF WriteUnlock, WGoto, ringVars, flagVars, readerVars, IInv,
       WriterInv, TypeOK, ReaderAsleep, WriterPC, ReaderPC
  <2>5. ReaderInv'
    BY <1>4 DEF WriteUnlock, WGoto, ringVars, flagVars, readerVars, IInv,
       ReaderInv, TypeOK, PolledReadNeverSleeps, WriterPC, ReaderPC
  <2>6. ReaderSleepInv'
    BY <1>4 DEF WriteUnlock, WGoto, ringVars, flagVars, readerVars, IInv,
       ReaderSleepInv, TypeOK, ReaderAsleep, Fill, WriterPC, ReaderPC
  <2>7. WriterSleepInv'
    BY <1>4 DEF WriteUnlock, WGoto, ringVars, flagVars, readerVars, IInv,
       WriterSleepInv, TypeOK, WriterAsleep, WriterPC, ReaderPC
  <2> QED
    BY <2>1, <2>2, <2>3, <2>4, <2>5, <2>6, <2>7 DEF IInv
<1>5. CASE WriteSleep
  <2>1. TypeOK'
    BY <1>5 DEF WriteSleep, WGoto, ringVars, flagVars, readerVars, IInv,
       TypeOK, WriterPC, ReaderPC
  <2>2. LockInv'
    BY <1>5 DEF WriteSleep, WGoto, ringVars, flagVars, readerVars, IInv,
       LockInv, TypeOK, WriterHolds, ReaderHolds, WriterPC, ReaderPC
  <2>3. NothingOverwritten'
    BY <1>5 DEF WriteSleep, WGoto, ringVars, flagVars, readerVars, IInv,
       NothingOverwritten, TypeOK, Fill, WriterPC, ReaderPC
  <2>4. WriterInv'
    BY <1>5, DistType, DistPut, DistRoom, DistGet DEF WriteSleep, WGoto,
       ringVars, flagVars, readerVars, IInv, WriterInv, TypeOK, LockInv,
       ReaderInv, ReaderSleepInv, WriterSleepInv, ReaderAsleep, WriterPC,
       ReaderPC, WriterHolds, ReaderHolds, PolledReadNeverSleeps, Fill,
       WriterAsleep
  <2>5. ReaderInv'
    BY <1>5 DEF WriteSleep, WGoto, ringVars, flagVars, readerVars, IInv,
       ReaderInv, TypeOK, PolledReadNeverSleeps, WriterPC, ReaderPC
  <2>6. ReaderSleepInv'
    BY <1>5 DEF WriteSleep, WGoto, ringVars, flagVars, readerVars, IInv,
       ReaderSleepInv, TypeOK, ReaderAsleep, Fill, WriterPC, ReaderPC
  <2>7. WriterSleepInv'
    BY <1>5 DEF WriteSleep, WGoto, ringVars, flagVars, readerVars, IInv,
       WriterSleepInv, TypeOK, WriterAsleep, WriterPC, ReaderPC
  <2> QED
    BY <2>1, <2>2, <2>3, <2>4, <2>5, <2>6, <2>7 DEF IInv
<1>6. CASE WriteData
  <2>1. TypeOK'
    BY <1>6 DEF WriteData, WGoto, flagVars, semVars, readerVars, IInv,
       TypeOK, WriterPC, ReaderPC
  <2>2. LockInv'
    BY <1>6 DEF WriteData, WGoto, flagVars, semVars, readerVars, IInv,
       LockInv, TypeOK, WriterHolds, ReaderHolds, WriterPC, ReaderPC
  <2>3. NothingOverwritten'
    BY <1>6 DEF WriteData, WGoto, flagVars, semVars, readerVars, IInv,
       NothingOverwritten, TypeOK, Fill, WriterPC, ReaderPC
  <2>4. WriterInv'
    BY <1>6 DEF WriteData, WGoto, flagVars, semVars, readerVars, IInv,
       WriterInv, TypeOK, ReaderAsleep, WriterPC, ReaderPC
  <2>5. ReaderInv'
    BY <1>6 DEF WriteData, WGoto, flagVars, semVars, readerVars, IInv,
       ReaderInv, TypeOK, PolledReadNeverSleeps, WriterPC, ReaderPC
  <2>6. ReaderSleepInv'
    BY <1>6 DEF WriteData, WGoto, flagVars, semVars, readerVars, IInv,
       ReaderSleepInv, TypeOK, ReaderAsleep, Fill, WriterPC, ReaderPC
  <2>7. WriterSleepInv'
    BY <1>6 DEF WriteData, WGoto, flagVars, semVars, readerVars, IInv,
       WriterSleepInv, TypeOK, WriterAsleep, WriterPC, ReaderPC
  <2> QED
    BY <2>1, <2>2, <2>3, <2>4, <2>5, <2>6, <2>7 DEF IInv
<1>7. CASE WriteAdvance
  <2>1. TypeOK'
    BY <1>7 DEF WriteAdvance, WGoto, flagVars, semVars, readerVars, IInv,
       TypeOK, WriterPC, ReaderPC
  <2>2. LockInv'
    BY <1>7 DEF WriteAdvance, WGoto, flagVars, semVars, readerVars, IInv,
       LockInv, TypeOK, WriterHolds, ReaderHolds, WriterPC, ReaderPC
  <2>3. NothingOverwritten'
    <3>1. /\ data' = data /\ rdp' = rdp /\ got' = got
          /\ wrp' = NextSlot(wrp) /\ sent' = sent + 1
          /\ NextSlot(wrp) # rdp /\ data[wrp] = sent
      BY <1>7 DEF WriteAdvance, WGoto, flagVars, semVars, readerVars, IInv, WriterInv
    <3>2. Fill' = Fill + 1
      BY <3>1, DistPut DEF Fill, IInv, TypeOK
    <3>3. ASSUME NEW p \in Slots, Dist(rdp, p) < Fill + 1
          PROVE  data[p] = got + Dist(rdp, p)
      <4>1. CASE Dist(rdp, p) < Fill
        BY <4>1 DEF IInv, NothingOverwritten
      <4>2. CASE Dist(rdp, p) = Fill
        BY <4>2, <3>1, DistInjective DEF IInv, TypeOK, NothingOverwritten, Fill
      <4> QED
        BY <4>1, <4>2, <3>3, DistType DEF IInv, TypeOK, Fill
    <3> QED
      BY <3>1, <3>2, <3>3, DistType DEF NothingOverwritten, IInv, TypeOK, Fill
  <2>4. WriterInv'
    BY <1>7 DEF WriteAdvance, WGoto, flagVars, semVars, readerVars, IInv,
       WriterInv, TypeOK, ReaderAsleep, WriterPC, ReaderPC
  <2>5. ReaderInv'
    BY <1>7, DistType DEF WriteAdvance, WGoto, flagVars, semVars, readerVars,
       IInv, ReaderInv, TypeOK, LockInv, WriterInv, PolledReadNeverSleeps,
       WriterPC, ReaderPC, WriterHolds, ReaderHolds, ReaderAsleep
  <2>6. ReaderSleepInv'
    BY <1>7, DistType, DistPut, DistRoom, DistGet DEF WriteAdvance, WGoto,
       flagVars, semVars, readerVars, IInv, ReaderSleepInv, TypeOK, LockInv,
       WriterInv, ReaderInv, WriterSleepInv, ReaderAsleep, Fill, WriterPC,
       ReaderPC, WriterHolds, ReaderHolds, PolledReadNeverSleeps,
       WriterAsleep
  <2>7. WriterSleepInv'
    BY <1>7 DEF WriteAdvance, WGoto, flagVars, semVars, readerVars, IInv,
       WriterSleepInv, TypeOK, WriterAsleep, WriterPC, ReaderPC
  <2> QED
    BY <2>1, <2>2, <2>3, <2>4, <2>5, <2>6, <2>7 DEF IInv
<1>8. CASE WriteWake
  <2>1. TypeOK'
    BY <1>8 DEF WriteWake, WGoto, ringVars, semVars, readerVars, WakeReader,
       Fill, IInv, TypeOK, WriterPC, ReaderPC
  <2>2. LockInv'
    BY <1>8 DEF WriteWake, WGoto, ringVars, semVars, readerVars, WakeReader,
       Fill, IInv, LockInv, TypeOK, WriterHolds, ReaderHolds, WriterPC,
       ReaderPC
  <2>3. NothingOverwritten'
    BY <1>8 DEF WriteWake, WGoto, ringVars, semVars, readerVars, WakeReader,
       Fill, IInv, NothingOverwritten, TypeOK, WriterPC, ReaderPC
  <2>4. WriterInv'
    BY <1>8 DEF WriteWake, WGoto, ringVars, semVars, readerVars, WakeReader,
       Fill, IInv, WriterInv, TypeOK, ReaderAsleep, WriterPC, ReaderPC
  <2>5. ReaderInv'
    BY <1>8 DEF WriteWake, WGoto, ringVars, semVars, readerVars, WakeReader,
       Fill, IInv, ReaderInv, TypeOK, PolledReadNeverSleeps, WriterPC,
       ReaderPC
  <2>6. ReaderSleepInv'
    BY <1>8, DistType DEF WriteWake, WGoto, ringVars, semVars, readerVars,
       WakeReader, Fill, IInv, ReaderSleepInv, TypeOK, LockInv, WriterInv,
       ReaderAsleep, WriterPC, ReaderPC, WriterHolds, ReaderHolds
  <2>7. WriterSleepInv'
    BY <1>8 DEF WriteWake, WGoto, ringVars, semVars, readerVars, WakeReader,
       Fill, IInv, WriterSleepInv, TypeOK, WriterAsleep, WriterPC, ReaderPC
  <2> QED
    BY <2>1, <2>2, <2>3, <2>4, <2>5, <2>6, <2>7 DEF IInv
<1>9. CASE WritePost
  <2>1. TypeOK'
    BY <1>9, DistType, DistPut, DistRoom, DistGet DEF WritePost, WGoto,
       ringVars, flagVars, readerVars, IInv, TypeOK, LockInv, WriterInv,
       ReaderInv, ReaderSleepInv, WriterSleepInv, WriterPC, ReaderPC,
       WriterHolds, ReaderHolds, ReaderAsleep, PolledReadNeverSleeps, Fill,
       WriterAsleep
  <2>2. LockInv'
    BY <1>9 DEF WritePost, WGoto, ringVars, flagVars, readerVars, IInv,
       LockInv, TypeOK, WriterHolds, ReaderHolds, WriterPC, ReaderPC
  <2>3. NothingOverwritten'
    BY <1>9 DEF WritePost, WGoto, ringVars, flagVars, readerVars, IInv,
       NothingOverwritten, TypeOK, Fill, WriterPC, ReaderPC
  <2>4. WriterInv'
    BY <1>9 DEF WritePost, WGoto, ringVars, flagVars, readerVars, IInv,
       WriterInv, TypeOK, ReaderAsleep, WriterPC, ReaderPC
  <2>5. ReaderInv'
    BY <1>9 DEF WritePost, WGoto, ringVars, flagVars, readerVars, IInv,
       ReaderInv, TypeOK, PolledReadNeverSleeps, WriterPC, ReaderPC
  <2>6. ReaderSleepInv'
    BY <1>9 DEF WritePost, WGoto, ringVars, flagVars, readerVars, IInv,
       ReaderSleepInv, TypeOK, ReaderAsleep, Fill, WriterPC, ReaderPC
  <2>7. WriterSleepInv'
    BY <1>9 DEF WritePost, WGoto, ringVars, flagVars, readerVars, IInv,
       WriterSleepInv, TypeOK, WriterAsleep, WriterPC, ReaderPC
  <2> QED
    BY <2>1, <2>2, <2>3, <2>4, <2>5, <2>6, <2>7 DEF IInv
<1>10. CASE ReadBegin
  <2>1. TypeOK'
    BY <1>10 DEF ReadBegin, RGoto, ringVars, flagVars, semVars, writerVars,
       IInv, TypeOK, WriterPC, ReaderPC
  <2>2. LockInv'
    BY <1>10 DEF ReadBegin, RGoto, ringVars, flagVars, semVars, writerVars,
       IInv, LockInv, TypeOK, WriterHolds, ReaderHolds, WriterPC, ReaderPC
  <2>3. NothingOverwritten'
    BY <1>10 DEF ReadBegin, RGoto, ringVars, flagVars, semVars, writerVars,
       IInv, NothingOverwritten, TypeOK, Fill, WriterPC, ReaderPC
  <2>4. WriterInv'
    BY <1>10 DEF ReadBegin, RGoto, ringVars, flagVars, semVars, writerVars,
       IInv, WriterInv, TypeOK, ReaderAsleep, WriterPC, ReaderPC
  <2>5. ReaderInv'
    BY <1>10 DEF ReadBegin, RGoto, ringVars, flagVars, semVars, writerVars,
       IInv, ReaderInv, TypeOK, PolledReadNeverSleeps, WriterPC, ReaderPC
  <2>6. ReaderSleepInv'
    BY <1>10 DEF ReadBegin, RGoto, ringVars, flagVars, semVars, writerVars,
       IInv, ReaderSleepInv, TypeOK, ReaderAsleep, Fill, WriterPC, ReaderPC
  <2>7. WriterSleepInv'
    BY <1>10 DEF ReadBegin, RGoto, ringVars, flagVars, semVars, writerVars,
       IInv, WriterSleepInv, TypeOK, WriterAsleep, WriterPC, ReaderPC
  <2> QED
    BY <2>1, <2>2, <2>3, <2>4, <2>5, <2>6, <2>7 DEF IInv
<1>11. CASE ReadPoll
  <2>1. TypeOK'
    BY <1>11 DEF ReadPoll, RGoto, ringVars, flagVars, semVars, writerVars,
       IInv, TypeOK, WriterPC, ReaderPC
  <2>2. LockInv'
    BY <1>11 DEF ReadPoll, RGoto, ringVars, flagVars, semVars, writerVars,
       IInv, LockInv, TypeOK, WriterHolds, ReaderHolds, WriterPC, ReaderPC
  <2>3. NothingOverwritten'
    BY <1>11 DEF ReadPoll, RGoto, ringVars, flagVars, semVars, writerVars,
       IInv, NothingOverwritten, TypeOK, Fill, WriterPC, ReaderPC
  <2>4. WriterInv'
    BY <1>11 DEF ReadPoll, RGoto, ringVars, flagVars, semVars, writerVars,
       IInv, WriterInv, TypeOK, ReaderAsleep, WriterPC, ReaderPC
  <2>5. ReaderInv'
    BY <1>11 DEF ReadPoll, RGoto, ringVars, flagVars, semVars, writerVars,
       IInv, ReaderInv, TypeOK, PolledReadNeverSleeps, WriterPC, ReaderPC
  <2>6. ReaderSleepInv'
    BY <1>11 DEF ReadPoll, RGoto, ringVars, flagVars, semVars, writerVars,
       IInv, ReaderSleepInv, TypeOK, ReaderAsleep, Fill, WriterPC, ReaderPC
  <2>7. WriterSleepInv'
    BY <1>11 DEF ReadPoll, RGoto, ringVars, flagVars, semVars, writerVars,
       IInv, WriterSleepInv, TypeOK, WriterAsleep, WriterPC, ReaderPC
  <2> QED
    BY <2>1, <2>2, <2>3, <2>4, <2>5, <2>6, <2>7 DEF IInv
<1>12. CASE ReadLock
  <2>1. TypeOK'
    BY <1>12 DEF ReadLock, RGoto, ringVars, flagVars, writerVars, IInv,
       TypeOK, WriterPC, ReaderPC
  <2>2. LockInv'
    BY <1>12 DEF ReadLock, RGoto, ringVars, flagVars, writerVars, IInv,
       LockInv, TypeOK, WriterHolds, ReaderHolds, WriterPC, ReaderPC
  <2>3. NothingOverwritten'
    BY <1>12 DEF ReadLock, RGoto, ringVars, flagVars, writerVars, IInv,
       NothingOverwritten, TypeOK, Fill, WriterPC, ReaderPC
  <2>4. WriterInv'
    BY <1>12 DEF ReadLock, RGoto, ringVars, flagVars, writerVars, IInv,
       WriterInv, TypeOK, ReaderAsleep, WriterPC, ReaderPC
  <2>5. ReaderInv'
    BY <1>12 DEF ReadLock, RGoto, ringVars, flagVars, writerVars, IInv,
       ReaderInv, TypeOK, PolledReadNeverSleeps, WriterPC, ReaderPC
  <2>6. ReaderSleepInv'
    BY <1>12 DEF ReadLock, RGoto, ringVars, flagVars, writerVars, IInv,
       ReaderSleepInv, TypeOK, ReaderAsleep, Fill, WriterPC, ReaderPC
  <2>7. WriterSleepInv'
    BY <1>12 DEF ReadLock, RGoto, ringVars, flagVars, writerVars, IInv,
       WriterSleepInv, TypeOK, WriterAsleep, WriterPC, ReaderPC
  <2> QED
    BY <2>1, <2>2, <2>3, <2>4, <2>5, <2>6, <2>7 DEF IInv
<1>13. CASE ReadCheck
  <2>1. TypeOK'
    BY <1>13 DEF ReadCheck, RGoto, ringVars, semVars, writerVars, IInv,
       TypeOK, WriterPC, ReaderPC
  <2>2. LockInv'
    BY <1>13 DEF ReadCheck, RGoto, ringVars, semVars, writerVars, IInv,
       LockInv, TypeOK, WriterHolds, ReaderHolds, WriterPC, ReaderPC
  <2>3. NothingOverwritten'
    BY <1>13 DEF ReadCheck, RGoto, ringVars, semVars, writerVars, IInv,
       NothingOverwritten, TypeOK, Fill, WriterPC, ReaderPC
  <2>4. WriterInv'
    BY <1>13 DEF ReadCheck, RGoto, ringVars, semVars, writerVars, IInv,
       WriterInv, TypeOK, ReaderAsleep, WriterPC, ReaderPC
  <2>5. ReaderInv'
    BY <1>13 DEF ReadCheck, RGoto, ringVars, semVars, writerVars, IInv,
       ReaderInv, TypeOK, PolledReadNeverSleeps, WriterPC, ReaderPC
  <2>6. ReaderSleepInv'
    BY <1>13, DistType DEF ReadCheck, RGoto, ringVars, semVars, writerVars,
       IInv, ReaderSleepInv, TypeOK, LockInv, ReaderInv, ReaderAsleep, Fill,
       WriterPC, ReaderPC, WriterHolds, ReaderHolds, PolledReadNeverSleeps
  <2>7. WriterSleepInv'
    BY <1>13 DEF ReadCheck, RGoto, ringVars, semVars, writerVars, IInv,
       WriterSleepInv, TypeOK, WriterAsleep, WriterPC, ReaderPC
  <2> QED
    BY <2>1, <2>2, <2>3, <2>4, <2>5, <2>6, <2>7 DEF IInv
<1>14. CASE ReadUnlock
  <2>1. TypeOK'
    BY <1>14, DistType DEF ReadUnlock, RGoto, ringVars, flagVars, writerVars,
       IInv, TypeOK, LockInv, ReaderInv, WriterPC, ReaderPC, WriterHolds,
       ReaderHolds, PolledReadNeverSleeps
  <2>2. LockInv'
    BY <1>14 DEF ReadUnlock, RGoto, ringVars, flagVars, writerVars, IInv,
       LockInv, TypeOK, WriterHolds, ReaderHolds, WriterPC, ReaderPC
  <2>3. NothingOverwritten'
    BY <1>14 DEF ReadUnlock, RGoto, ringVars, flagVars, writerVars, IInv,
       NothingOverwritten, TypeOK, Fill, WriterPC, ReaderPC
  <2>4. WriterInv'
    BY <1>14 DEF ReadUnlock, RGoto, ringVars, flagVars, writerVars, IInv,
       WriterInv, TypeOK, ReaderAsleep, WriterPC, ReaderPC
  <2>5. ReaderInv'
    BY <1>14 DEF ReadUnlock, RGoto, ringVars, flagVars, writerVars, IInv,
       ReaderInv, TypeOK, PolledReadNeverSleeps, WriterPC, ReaderPC
  <2>6. ReaderSleepInv'
    BY <1>14 DEF ReadUnlock, RGoto, ringVars, flagVars, writerVars, IInv,
       ReaderSleepInv, TypeOK, ReaderAsleep, Fill, WriterPC, ReaderPC
  <2>7. WriterSleepInv'
    BY <1>14 DEF ReadUnlock, RGoto, ringVars, flagVars, writerVars, IInv,
       WriterSleepInv, TypeOK, WriterAsleep, WriterPC, ReaderPC
  <2> QED
    BY <2>1, <2>2, <2>3, <2>4, <2>5, <2>6, <2>7 DEF IInv
<1>15. CASE ReadSleep
  <2>1. TypeOK'
    BY <1>15 DEF ReadSleep, RGoto, ringVars, flagVars, writerVars, IInv,
       TypeOK, WriterPC, ReaderPC
  <2>2. LockInv'
    BY <1>15 DEF ReadSleep, RGoto, ringVars, flagVars, writerVars, IInv,
       LockInv, TypeOK, WriterHolds, ReaderHolds, WriterPC, ReaderPC
  <2>3. NothingOverwritten'
    BY <1>15 DEF ReadSleep, RGoto, ringVars, flagVars, writerVars, IInv,
       NothingOverwritten, TypeOK, Fill, WriterPC, ReaderPC
  <2>4. WriterInv'
    BY <1>15, DistType, DistPut, DistRoom, DistGet DEF ReadSleep, RGoto,
       ringVars, flagVars, writerVars, IInv, WriterInv, TypeOK, LockInv,
       ReaderInv, ReaderSleepInv, WriterSleepInv, ReaderAsleep, WriterPC,
       ReaderPC, WriterHolds, ReaderHolds, PolledReadNeverSleeps, Fill,
       WriterAsleep
  <2>5. ReaderInv'
    BY <1>15, DistType, DistPut, DistRoom, DistGet DEF ReadSleep, RGoto,
       ringVars, flagVars, writerVars, IInv, ReaderInv, TypeOK, LockInv,
       WriterInv, ReaderSleepInv, WriterSleepInv, PolledReadNeverSleeps,
       WriterPC, ReaderPC, WriterHolds, ReaderHolds, ReaderAsleep, Fill,
       WriterAsleep
  <2>6. ReaderSleepInv'
    BY <1>15 DEF ReadSleep, RGoto, ringVars, flagVars, writerVars, IInv,
       ReaderSleepInv, TypeOK, ReaderAsleep, Fill, WriterPC, ReaderPC
  <2>7. WriterSleepInv'
    BY <1>15 DEF ReadSleep, RGoto, ringVars, flagVars, writerVars, IInv,
       WriterSleepInv, TypeOK, WriterAsleep, WriterPC, ReaderPC
  <2> QED
    BY <2>1, <2>2, <2>3, <2>4, <2>5, <2>6, <2>7 DEF IInv
<1>16. CASE ReadTake
  <2>1. TypeOK'
    BY <1>16 DEF ReadTake, RGoto, ringVars, flagVars, semVars, writerVars,
       IInv, TypeOK, WriterPC, ReaderPC
  <2>2. LockInv'
    BY <1>16 DEF ReadTake, RGoto, ringVars, flagVars, semVars, writerVars,
       IInv, LockInv, TypeOK, WriterHolds, ReaderHolds, WriterPC, ReaderPC
  <2>3. NothingOverwritten'
    BY <1>16 DEF ReadTake, RGoto, ringVars, flagVars, semVars, writerVars,
       IInv, NothingOverwritten, TypeOK, Fill, WriterPC, ReaderPC
  <2>4. WriterInv'
    BY <1>16 DEF ReadTake, RGoto, ringVars, flagVars, semVars, writerVars,
       IInv, WriterInv, TypeOK, ReaderAsleep, WriterPC, ReaderPC
  <2>5. ReaderInv'
    BY <1>16, DistType, DistPut, DistRoom, DistGet DEF ReadTake, RGoto,
       ringVars, flagVars, semVars, writerVars, IInv, TypeOK, LockInv,
       NothingOverwritten, WriterInv, ReaderInv, ReaderSleepInv,
       WriterSleepInv, WriterPC, ReaderPC, WriterHolds, ReaderHolds, Fill,
       ReaderAsleep, PolledReadNeverSleeps, WriterAsleep
  <2>6. ReaderSleepInv'
    BY <1>16 DEF ReadTake, RGoto, ringVars, flagVars, semVars, writerVars,
       IInv, ReaderSleepInv, TypeOK, ReaderAsleep, Fill, WriterPC, ReaderPC
  <2>7. WriterSleepInv'
    BY <1>16 DEF ReadTake, RGoto, ringVars, flagVars, semVars, writerVars,
       IInv, WriterSleepInv, TypeOK, WriterAsleep, WriterPC, ReaderPC
  <2> QED
    BY <2>1, <2>2, <2>3, <2>4, <2>5, <2>6, <2>7 DEF IInv
<1>17. CASE ReadAdvance
  <2>1. TypeOK'
    BY <1>17, NextSlotType DEF ReadAdvance, RGoto, flagVars, semVars,
       writerVars, IInv, TypeOK, WriterPC, ReaderPC
  <2>2. LockInv'
    BY <1>17, NextSlotType DEF ReadAdvance, RGoto, flagVars, semVars,
       writerVars, IInv, LockInv, TypeOK, WriterHolds, ReaderHolds, WriterPC,
       ReaderPC
  <2>3. NothingOverwritten'
    <3>1. /\ data' = data /\ wrp' = wrp /\ sent' = sent
          /\ rdp' = NextSlot(rdp) /\ got' = got + 1 /\ rdp # wrp
      BY <1>17 DEF ReadAdvance, RGoto, flagVars, semVars, writerVars, IInv, ReaderInv
    <3>2. Fill' = Fill - 1 /\ Fill \in 0 .. Size - 1
      BY <3>1, DistGet, DistType DEF Fill, IInv, TypeOK
    <3>3. ASSUME NEW p \in Slots, Dist(NextSlot(rdp), p) < Fill - 1
          PROVE  data[p] = got + 1 + Dist(NextSlot(rdp), p)
      <4>1. p # rdp
        BY <3>2, <3>3, DistLeft DEF IInv, TypeOK
      <4>2. Dist(NextSlot(rdp), p) = Dist(rdp, p) - 1
        BY <4>1, DistGet DEF IInv, TypeOK
      <4>3. Dist(rdp, p) \in 0 .. Size - 1
        BY DistType DEF IInv, TypeOK
      <4> QED
        BY <3>2, <3>3, <4>2, <4>3 DEF IInv, NothingOverwritten, TypeOK
    <3> QED
      BY <3>1, <3>2, <3>3 DEF NothingOverwritten, IInv, TypeOK
  <2>4. WriterInv'
    BY <1>17, NextSlotType, DistType, DistPut, DistRoom, DistGet DEF
       ReadAdvance, RGoto, flagVars, semVars, writerVars, IInv, WriterInv,
       TypeOK, LockInv, ReaderInv, ReaderSleepInv, WriterSleepInv,
       ReaderAsleep, WriterPC, ReaderPC, WriterHolds, ReaderHolds,
       PolledReadNeverSleeps, Fill, WriterAsleep
  <2>5. ReaderInv'
    BY <1>17, NextSlotType DEF ReadAdvance, RGoto, flagVars, semVars,
       writerVars, IInv, ReaderInv, TypeOK, PolledReadNeverSleeps, WriterPC,
       ReaderPC
  <2>6. ReaderSleepInv'
    BY <1>17, NextSlotType DEF ReadAdvance, RGoto, flagVars, semVars,
       writerVars, IInv, ReaderSleepInv, TypeOK, ReaderAsleep, Fill,
       WriterPC, ReaderPC
  <2>7. WriterSleepInv'
    BY <1>17, NextSlotType, DistType, DistPut, DistRoom, DistGet DEF
       ReadAdvance, RGoto, flagVars, semVars, writerVars, IInv,
       WriterSleepInv, TypeOK, LockInv, WriterInv, ReaderInv, ReaderSleepInv,
       WriterAsleep, WriterPC, ReaderPC, WriterHolds, ReaderHolds,
       ReaderAsleep, PolledReadNeverSleeps, Fill
  <2> QED
    BY <2>1, <2>2, <2>3, <2>4, <2>5, <2>6, <2>7 DEF IInv
<1>18. CASE ReadWake
  <2>1. TypeOK'
    BY <1>18 DEF ReadWake, RGoto, ringVars, semVars, writerVars, IInv,
       TypeOK, WriterPC, ReaderPC
  <2>2. LockInv'
    BY <1>18 DEF ReadWake, RGoto, ringVars, semVars, writerVars, IInv,
       LockInv, TypeOK, WriterHolds, ReaderHolds, WriterPC, ReaderPC
  <2>3. NothingOverwritten'
    BY <1>18 DEF ReadWake, RGoto, ringVars, semVars, writerVars, IInv,
       NothingOverwritten, TypeOK, Fill, WriterPC, ReaderPC
  <2>4. WriterInv'
    BY <1>18 DEF ReadWake, RGoto, ringVars, semVars, writerVars, IInv,
       WriterInv, TypeOK, ReaderAsleep, WriterPC, ReaderPC
  <2>5. ReaderInv'
    BY <1>18 DEF ReadWake, RGoto, ringVars, semVars, writerVars, IInv,
       ReaderInv, TypeOK, PolledReadNeverSleeps, WriterPC, ReaderPC
  <2>6. ReaderSleepInv'
    BY <1>18 DEF ReadWake, RGoto, ringVars, semVars, writerVars, IInv,
       ReaderSleepInv, TypeOK, ReaderAsleep, Fill, WriterPC, ReaderPC
  <2>7. WriterSleepInv'
    BY <1>18 DEF ReadWake, RGoto, ringVars, semVars, writerVars, IInv,
       WriterSleepInv, TypeOK, WriterAsleep, WriterPC, ReaderPC
  <2> QED
    BY <2>1, <2>2, <2>3, <2>4, <2>5, <2>6, <2>7 DEF IInv
<1>19. CASE ReadPost
  <2>1. TypeOK'
    BY <1>19, DistType, DistPut, DistRoom, DistGet DEF ReadPost, RGoto,
       ringVars, flagVars, writerVars, IInv, TypeOK, LockInv, WriterInv,
       ReaderInv, ReaderSleepInv, WriterSleepInv, WriterPC, ReaderPC,
       WriterHolds, ReaderHolds, ReaderAsleep, PolledReadNeverSleeps, Fill,
       WriterAsleep
  <2>2. LockInv'
    BY <1>19 DEF ReadPost, RGoto, ringVars, flagVars, writerVars, IInv,
       LockInv, TypeOK, WriterHolds, ReaderHolds, WriterPC, ReaderPC
  <2>3. NothingOverwritten'
    BY <1>19 DEF ReadPost, RGoto, ringVars, flagVars, writerVars, IInv,
       NothingOverwritten, TypeOK, Fill, WriterPC, ReaderPC
  <2>4. WriterInv'
    BY <1>19 DEF ReadPost, RGoto, ringVars, flagVars, writerVars, IInv,
       WriterInv, TypeOK, ReaderAsleep, WriterPC, ReaderPC
  <2>5. ReaderInv'
    BY <1>19 DEF ReadPost, RGoto, ringVars, flagVars, writerVars, IInv,
       ReaderInv, TypeOK, PolledReadNeverSleeps, WriterPC, ReaderPC
  <2>6. ReaderSleepInv'
    BY <1>19 DEF ReadPost, RGoto, ringVars, flagVars, writerVars, IInv,
       ReaderSleepInv, TypeOK, ReaderAsleep, Fill, WriterPC, ReaderPC
  <2>7. WriterSleepInv'
    BY <1>19 DEF ReadPost, RGoto, ringVars, flagVars, writerVars, IInv,
       WriterSleepInv, TypeOK, WriterAsleep, WriterPC, ReaderPC
  <2> QED
    BY <2>1, <2>2, <2>3, <2>4, <2>5, <2>6, <2>7 DEF IInv
<1>20. CASE UNCHANGED vars
  BY <1>20 DEF vars, IInv, TypeOK, LockInv, NothingOverwritten, WriterInv,
     ReaderInv, ReaderSleepInv, WriterSleepInv, ringVars, flagVars, semVars,
     writerVars, readerVars, WriterHolds, ReaderHolds, WriterAsleep,
     ReaderAsleep, Fill, PolledReadNeverSleeps
<1> QED
  BY <1>1, <1>2, <1>3, <1>4, <1>5, <1>6, <1>7, <1>8, <1>9, <1>10, <1>11,
     <1>12, <1>13, <1>14, <1>15, <1>16, <1>17, <1>18, <1>19, <1>20 DEF Next,
     Writer, Reader

-----------------------------------------------------------------------------
\* The invariant holds throughout.
THEOREM Invariance == Spec => []IInv
<1>1. IInv /\ [Next]_vars => IInv'
  BY NextIInv
<1> QED
  BY InitIInv, <1>1, PTL DEF Spec

\* Types: both cursors stay inside the ring, the semaphores stay binary.
THEOREM TypeCorrect == Spec => []TypeOK
<1>1. IInv => TypeOK
  BY DEF IInv
<1> QED
  BY Invariance, <1>1, PTL

\* The chunks come out in the order they went in, whichever path the writer takes.
THEOREM InOrder == Spec => []ReadsInOrder
<1>1. IInv => ReadsInOrder
  <2> SUFFICES ASSUME IInv PROVE ReadsInOrder
    OBVIOUS
  <2>1. rpc \in {"take", "rdp"} => Fill > 0
    BY DistType DEF IInv, ReaderInv, TypeOK, Fill
  <2>2. sent = got + Fill /\ Fill \in Nat
    BY DistType, PipeAssumption DEF PipeAssumption, IInv, NothingOverwritten, TypeOK, Fill
  <2> QED
    BY <2>1, <2>2 DEF IInv, TypeOK, ReaderInv, ReadsInOrder
<1> QED
  BY Invariance, <1>1, PTL

\* What is queued is never overwritten, for every Size and Chunks < Size.
THEOREM Preserved == Spec => []NothingOverwritten
<1>1. IInv => NothingOverwritten
  BY DEF IInv
<1> QED
  BY Invariance, <1>1, PTL

\* No wake-up is lost: neither the reader's after a flushed write ...
THEOREM NoLostReaderWakeup == Spec => []FlushedReaderWakes
<1>1. IInv => FlushedReaderWakes
  BY DEF IInv, ReaderSleepInv, ReaderAsleep, FlushedReaderWakes, TypeOK
<1> QED
  BY Invariance, <1>1, PTL

\* ... nor the writer's after a full pipe, and the two never wait for each other.
THEOREM NoLostWriterWakeup == Spec => []SleepersHaveAWaker
<1>1. IInv => SleepersHaveAWaker
  <2> SUFFICES ASSUME IInv PROVE SleepersHaveAWaker
    OBVIOUS
  <2>1. ASSUME wpc = "sleep", writer_wait = 0
        PROVE  rpc = "post" \/ (writer_waiting = 1 /\ (nxwrp = rdp \/ rpc = "wake"))
    BY <2>1 DEF IInv, WriterSleepInv, WriterAsleep, TypeOK
  <2>2. ASSUME wpc = "sleep", writer_wait = 0, rpc = "sleep", reader_wait = 0
        PROVE  FALSE
    <3>1. nxwrp = rdp /\ nxwrp = NextSlot(wrp)
      BY <2>1, <2>2 DEF IInv, WriterInv
    <3>2. Fill = Size - 1
      BY <3>1, DistRoom DEF IInv, TypeOK, Fill
    <3>3. Fill < Chunks
      BY <2>2 DEF IInv, ReaderSleepInv, ReaderAsleep, TypeOK
    <3> QED
      BY <3>2, <3>3, PipeAssumption DEF PipeAssumption
  <2> QED
    BY <2>1, <2>2 DEF SleepersHaveAWaker
<1> QED
  BY Invariance, <1>1, PTL

\* A thread that polls before it reads is never put to sleep by the pipe.
THEOREM PollingIsSafe == Spec => []PolledReadNeverSleeps
<1>1. IInv => PolledReadNeverSleeps
  BY DEF IInv, ReaderInv
<1> QED
  BY Invariance, <1>1, PTL

-----------------------------------------------------------------------------
\* Read off the ring, the queue is always the numbers from got to sent - 1.
LEMMA QueuedIs == IInv => /\ Queued = [i \in 1 .. Fill |-> got + i - 1]
                          /\ Fill \in 0 .. Size - 1 /\ sent = got + Fill
<1> SUFFICES ASSUME IInv
             PROVE  /\ Queued = [i \in 1 .. Fill |-> got + i - 1]
                    /\ Fill \in 0 .. Size - 1 /\ sent = got + Fill
  OBVIOUS
<1>1. Fill \in 0 .. Size - 1 /\ sent = got + Fill
  BY DistType DEF Fill, IInv, TypeOK, NothingOverwritten
<1>2. ASSUME NEW i \in 1 .. Fill PROVE data[SlotAt(i - 1)] = got + i - 1
  <2>1. SlotAt(i - 1) \in Slots /\ Dist(rdp, SlotAt(i - 1)) = i - 1
    BY <1>1, <1>2, PipeAssumption
       DEF PipeAssumption, SlotAt, Slots, Dist, IInv, TypeOK
  <2>2. data[SlotAt(i - 1)] = got + Dist(rdp, SlotAt(i - 1))
    BY <1>1, <1>2, <2>1 DEF IInv, NothingOverwritten
  <2> QED
    BY <2>1, <2>2 DEF IInv, TypeOK
<1> QED
  BY <1>1, <1>2 DEF Queued

\* The consecutive numbers from g on, n of them.
Run(g, n) == [i \in 1 .. n |-> g + i - 1]

\* Putting the next number keeps the queue a run ...
LEMMA RunPut ==
  ASSUME NEW g \in Nat, NEW n \in Nat
  PROVE  Run(g, n + 1) = Append(Run(g, n), g + n) /\ Len(Run(g, n)) = n
<1>1. Run(g, n) \in Seq(Nat) /\ Len(Run(g, n)) = n
  BY DEF Run
<1>2. Append(Run(g, n), g + n) = [i \in 1 .. n + 1 |-> IF i <= n THEN Run(g, n)[i] ELSE g + n]
  BY <1>1
<1>3. \A i \in 1 .. n + 1 : (IF i <= n THEN Run(g, n)[i] ELSE g + n) = g + i - 1
  BY DEF Run
<1> QED
  BY <1>1, <1>2, <1>3 DEF Run

\* ... and so does taking the oldest.
LEMMA RunGet ==
  ASSUME NEW g \in Nat, NEW n \in Nat, n > 0
  PROVE  /\ Run(g, n) # <<>> /\ Head(Run(g, n)) = g
         /\ Run(g + 1, n - 1) = Tail(Run(g, n))
<1>1. Run(g, n) \in Seq(Nat) /\ Len(Run(g, n)) = n
  BY DEF Run
<1>2. Head(Run(g, n)) = g /\ Run(g, n) # <<>>
  BY <1>1 DEF Run
<1>3. Tail(Run(g, n)) = [i \in 1 .. n - 1 |-> Run(g, n)[i + 1]]
  <2> DEFINE rest == Tail(Run(g, n))
  <2>1. /\ rest \in Seq(Nat) /\ Len(rest) = n - 1
        /\ \A i \in 1 .. Len(rest) : rest[i] = Run(g, n)[i + 1]
    BY <1>1, <1>2, HeadTailProperties
  <2> HIDE DEF rest
  <2>2. rest = [i \in 1 .. Len(rest) |-> rest[i]]
    BY <2>1
  <2>3. rest = [i \in 1 .. n - 1 |-> Run(g, n)[i + 1]]
    BY <2>1, <2>2
  <2> QED
    BY <2>3 DEF rest
<1>4. \A i \in 1 .. n - 1 : Run(g, n)[i + 1] = (g + 1) + i - 1
  BY DEF Run
<1> QED
  BY <1>2, <1>3, <1>4 DEF Run

\* The pipe is a bounded queue of Size - 1 chunks: every step of the two
\* threads is one of PipeFifo's or leaves the queue as it is.
THEOREM PipeRefinesFifo == Spec => ImplementsFifo
<1>1. Init => Fifo!Init
  <2> SUFFICES ASSUME Init PROVE Fifo!Init
    OBVIOUS
  <2>1. Fill = 0
    BY PipeAssumption DEF PipeAssumption, Init, Fill, Dist
  <2> QED
    BY <2>1 DEF Init, Fifo!Init, Queued
<1>2. IInv /\ IInv' /\ [Next]_vars => [Fifo!Next]_Fifo!vars
  <2> SUFFICES ASSUME IInv, IInv', [Next]_vars PROVE [Fifo!Next]_Fifo!vars
    OBVIOUS
  <2> USE PipeAssumption DEF PipeAssumption
  <2>1. Queued = Run(got, Fill) /\ Queued' = Run(got', Fill')
    <3>1. Queued = [i \in 1 .. Fill |-> got + i - 1]
      BY QueuedIs
    <3>2. (Queued = [i \in 1 .. Fill |-> got + i - 1])'
      BY QueuedIs, PTL
    <3> QED
      BY <3>1, <3>2 DEF Run
  <2>2. /\ got \in Nat /\ sent \in Nat /\ Fill \in Nat /\ Fill < Size
        /\ sent = got + Fill /\ sent' = got' + Fill'
        /\ got' \in Nat /\ Fill' \in Nat /\ Fill' < Size
    <3>1. Fill \in 0 .. Size - 1 /\ sent = got + Fill
      BY QueuedIs
    <3>2. (Fill \in 0 .. Size - 1 /\ sent = got + Fill)'
      BY QueuedIs, PTL
    <3>3. got \in Nat /\ sent \in Nat /\ got' \in Nat
      BY DEF IInv, TypeOK
    <3> QED
      BY <3>1, <3>2, <3>3 DEF Fill
  <2>3. CASE WriteAdvance
    <3>1. sent' = sent + 1 /\ got' = got /\ sent < MaxSent
      BY <2>3 DEF WriteAdvance, WGoto, readerVars, IInv, WriterInv
    <3>2. Fill' = Fill + 1
      BY <2>2, <3>1 DEF Fill
    <3>3. Queued' = Append(Queued, sent) /\ Len(Queued) = Fill
      BY <2>1, <2>2, <3>1, <3>2, RunPut
    <3>4. Fifo!Put
      BY <2>2, <3>1, <3>2, <3>3 DEF Fifo!Put
    <3> QED
      BY <3>4 DEF Fifo!Next
  <2>4. CASE ReadAdvance
    <3>1. got' = got + 1 /\ sent' = sent
      BY <2>4 DEF ReadAdvance, RGoto, writerVars
    <3>2. Fill' = Fill - 1 /\ Fill > 0
      BY <2>2, <3>1 DEF Fill
    <3>3. Queued # <<>> /\ Head(Queued) = got /\ Queued' = Tail(Queued)
      BY <2>1, <2>2, <3>1, <3>2, RunGet
    <3>4. Fifo!Get
      BY <3>1, <3>3 DEF Fifo!Get
    <3> QED
      BY <3>4 DEF Fifo!Next
  <2>5. CASE ~WriteAdvance /\ ~ReadAdvance
    <3>1. sent' = sent /\ got' = got
      BY <2>5 DEF Next, Writer, Reader, vars, writerVars, readerVars,
         WriteBegin, WriteLock, WriteCheck, WriteUnlock, WriteSleep, WriteData,
         WriteWake, WritePost, ReadBegin, ReadPoll, ReadLock, ReadCheck,
         ReadUnlock, ReadSleep, ReadTake, ReadWake, ReadPost
    <3>2. Fill' = Fill
      BY <2>2, <3>1 DEF Fill
    <3>3. Queued' = Queued
      BY <2>1, <3>1, <3>2
    <3> QED
      BY <3>1, <3>3 DEF Fifo!vars
  <2> QED
    BY <2>3, <2>4, <2>5
<1> QED
  BY <1>1, <1>2, Invariance, PTL DEF Spec, ImplementsFifo, Fifo!Spec

-----------------------------------------------------------------------------
(***************************************************************************)
(* AmigaSem.                                                               *)
(***************************************************************************)

Types ==
    /\ value \in Int /\ live \in BOOLEAN /\ mutex \in Threads \cup {None}
    /\ succ \in [Nodes -> Nodes] /\ pred \in [Nodes -> Nodes]
    /\ port \in Seq([type : MsgType, from : Threads])
    /\ signal \in [Threads -> SUBSET Signals] /\ pc \in [Threads -> PC]
    /\ posts \in 0 .. MaxPosts /\ breaks \in 0 .. MaxBreaks

Pending(type) == port # <<>> /\ port[1].type = type

\* The port holds one message at most, from a task that waits for its answer.
Message ==
    /\ Len(port) <= 1
    /\ port # <<>> => ~Reply(port[1].from)
    /\ Pending("BLOCK") => pc[port[1].from] = "asleep"
    /\ Pending("UNBLOCK") => pc[port[1].from] = "posting" /\ live
    /\ Pending("DESTROY") => pc[port[1].from] = "destroying" /\ ~live

\* An answer has come only to who still waits for it.
Answers == \A t \in Threads : Reply(t) => pc[t] \in {"asleep", "posting", "destroying"}

\* Until DESTROY is handled the list is whole: it is the tasks held.
Over == ~live /\ ~Pending("DESTROY")
Whole == \E q \in Seq(Threads) : IsInjective(q) /\ IsList(q) /\ Range(q) = Held

\* What is true of the links after it.  Behind a message DESTROY took off there may
\* be one that is gone; where a message names one before it, the two agree.
Coming == {t \in Threads : pc[t] = "blocking" \/ Msg("BLOCK", t) \in Range(port)}
Back == \A n \in Held \cup {None} : pred[n] \in Held \cup {None}
Agree == /\ \A t \in Held : pred[t] # None => succ[pred[t]] = t
         /\ pred[None] # None => succ[pred[None]] = None
Forth == \A t \in Held : pred[t] # None /\ succ[t] # None =>
                            succ[t] \in Held /\ pred[succ[t]] = t
Stale == /\ \A n \in Held \cup {None} : succ[n] \in Held => pred[succ[n]] \in {n, None}
         /\ \A n \in Held \cup {None} : succ[n] \notin Coming
         /\ \A t \in Held : pred[t] = None => succ[t] # t
Named == succ[None] \in Held \cup {None} \cup overwritten
Links == Back /\ Agree /\ Forth /\ Stale /\ Named

Listed == IF Over THEN Links ELSE Whole /\ overwritten = {}

\* Each task let through will take one from the value.
Counts ==
    /\ value <= Initial + posts
    /\ Cardinality(LetThrough) < Cardinality(Threads)
    /\ value - Cardinality(LetThrough) >= 1 - Cardinality(Threads)
    /\ Cardinality(LetThrough) + (IF Pending("UNBLOCK") THEN 1 ELSE 0) <= posts
    /\ Pending("UNBLOCK") => value = 1

\* Whoever waits does so on a count that is used up, or that the one wake-up
\* under way will use up, unless a post was missed.
Waiters == Held # {} \/ Pending("BLOCK") \/ \E t \in Threads : pc[t] = "blocking"
Spoken == live /\ ~missed =>
    /\ Waiters => value <= 0 \/ (value = 1 /\ (LetThrough # {} \/ Pending("UNBLOCK")))
    /\ Pending("UNBLOCK") => \A t \in Threads : pc[t] # "blocking"

SemIInv == Types /\ Message /\ Answers /\ Listed /\ Counts /\ Spoken

-----------------------------------------------------------------------------
\* What is left of a sequence when the element at i is taken out.
LEMMA RemovedAt ==
  ASSUME NEW S, NEW s \in Seq(S), NEW i \in DOMAIN s
  PROVE  /\ RemoveAt(s, i) \in Seq(S) /\ Len(RemoveAt(s, i)) = Len(s) - 1
         /\ \A k \in 1 .. Len(s) - 1 : RemoveAt(s, i)[k] = s[IF k < i THEN k ELSE k + 1]
<1> DEFINE a == SubSeq(s, 1, i - 1)
           b == SubSeq(s, i + 1, Len(s))
<1>1. a \in Seq(S) /\ Len(a) = i - 1 /\ \A k \in 1 .. i - 1 : a[k] = s[k]
  OBVIOUS
<1>2. b \in Seq(S) /\ Len(b) = Len(s) - i /\ \A k \in 1 .. Len(s) - i : b[k] = s[k + i]
  OBVIOUS
<1> HIDE DEF a, b
<1>3. a \o b \in Seq(S) /\ Len(a \o b) = Len(s) - 1
  BY <1>1, <1>2
<1>4. \A k \in 1 .. Len(s) - 1 : (a \o b)[k] = s[IF k < i THEN k ELSE k + 1]
  <2> TAKE k \in 1 .. Len(s) - 1
  <2>1. CASE k < i
    BY <1>1, <1>2, <2>1
  <2>2. CASE ~(k < i)
    <3>1. k - (i - 1) \in 1 .. Len(s) - i /\ k - (i-1) + i = k + 1
      BY <2>2
    <3>2. (a \o b)[k] = b[k - (i - 1)]
      BY <1>1, <1>2, <2>2
    <3>  QED BY <1>2, <2>2, <3>1, <3>2
  <2> QED BY <2>1, <2>2
<1> QED BY <1>3, <1>4 DEF RemoveAt, a, b

\* Taking a sleeper off the list leaves the others, each once.
LEMMA RemovedSleeper ==
  ASSUME NEW S, NEW s \in Seq(S), NEW i \in DOMAIN s, IsInjective(s)
  PROVE  /\ RemoveAt(s, i) \in Seq(S) /\ IsInjective(RemoveAt(s,i))
         /\ Range(RemoveAt(s, i)) = Range(s) \ {s[i]}
<1> DEFINE r == RemoveAt(s, i)
           at(k) == IF k < i THEN k ELSE k + 1
<1>1. /\ r \in Seq(S) /\ DOMAIN r = 1 .. Len(s) - 1 /\ DOMAIN s = 1 .. Len(s)
      /\ \A k \in DOMAIN r : r[k] = s[at(k)]
  <2>1. /\ r \in Seq(S) /\ Len(r) = Len(s) - 1
        /\ \A k \in 1 .. Len(s) - 1 : r[k] = s[at(k)]
    BY RemovedAt, Zenon
  <2> HIDE DEF r, at
  <2> QED BY <2>1
<1> HIDE DEF r
<1>2. \A k \in DOMAIN r : at(k) \in DOMAIN s /\ at(k) # i
  BY <1>1
<1>3. \A j, k \in DOMAIN r : at(j) = at(k) => j = k
  BY <1>1
<1>4. IsInjective(r)
  <2> HIDE DEF at
  <2> QED BY <1>1, <1>2, <1>3 DEF IsInjective
<1>5. \A k \in DOMAIN s : k # i => \E j \in DOMAIN r : at(j) = k
  <2> SUFFICES ASSUME NEW k \in DOMAIN s, k # i PROVE \E j \in DOMAIN r : at(j) = k
    OBVIOUS
  <2>1. CASE k < i
    BY <1>1, <2>1
  <2>2. CASE ~(k < i)
    <3>1. k - 1 \in DOMAIN r /\ at(k - 1) = k
      BY <1>1, <2>2
    <3> QED BY <3>1
  <2> QED BY <2>1, <2>2
<1>6. Range(r) = Range(s) \ {s[i]}
  <2> HIDE DEF at
  <2> QED BY <1>1, <1>2, <1>5 DEF IsInjective, Range
<1> QED BY <1>1, <1>4, <1>6 DEF r

\* Between none and one.
LEMMA JustOne == ASSUME NEW n \in Nat, n <= 1, n # 0 PROVE n = 1
OBVIOUS

\* A sequence with something in it.
LEMMA NotEmpty ==
  ASSUME NEW S, NEW s \in Seq(S), s # <<>>
  PROVE  s[1] \in S /\ Len(s) \in Nat /\ Len(s) # 0
OBVIOUS

\* Adding one at its end.
LEMMA AppendedSleeper ==
  ASSUME NEW S, NEW s \in Seq(S), NEW t \in S
  PROVE  /\ Append(s, t) \in Seq(S) /\ Range(Append(s, t)) = Range(s) \cup {t}
         /\ IsInjective(s) /\ t \notin Range(s) => IsInjective(Append(s, t))
<1>1. /\ Append(s, t) \in Seq(S) /\ DOMAIN Append(s, t) = 1 .. Len(s) + 1 /\ DOMAIN s = 1 .. Len(s)
      /\ Append(s, t)[Len(s) + 1] = t /\ \A k \in 1 .. Len(s) : Append(s, t)[k] = s[k]
      /\ Len(s) + 1 \notin 1 .. Len(s) /\ 1 .. Len(s) + 1 = (1 .. Len(s)) \cup {Len(s) + 1}
  OBVIOUS
<1> QED BY <1>1 DEF Range, IsInjective

\* Taking off the first one.
LEMMA WithoutFirst ==
  ASSUME NEW S, NEW s \in Seq(S), s # <<>>
  PROVE  /\ Head(s) \in S /\ Head(s) \in Range(s) /\ Tail(s) \in Seq(S)
         /\ Len(Tail(s)) = Len(s) - 1 /\ Head(s) = s[1]
         /\ IsInjective(s) => IsInjective(Tail(s)) /\ Range(Tail(s)) = Range(s) \ {Head(s)}
<1>1. /\ Tail(s) \in Seq(S) /\ DOMAIN Tail(s) = 1 .. Len(s) - 1 /\ DOMAIN s = 1 .. Len(s) /\ Len(s) > 0
      /\ Head(s) = s[1] /\ \A k \in 1 .. Len(s) - 1 : Tail(s)[k] = s[k + 1]
      /\ s[1] \in S /\ 1 \in DOMAIN s /\ Len(Tail(s)) = Len(s) - 1
  OBVIOUS
<1>2. \A k \in DOMAIN s : k # 1 => k - 1 \in DOMAIN Tail(s) /\ s[k] = Tail(s)[k - 1]
  BY <1>1
<1>3. \A k \in DOMAIN Tail(s) : k + 1 \in DOMAIN s /\ k + 1 # 1 /\ Tail(s)[k] = s[k + 1]
  BY <1>1
<1>4. \A j, k \in DOMAIN Tail(s) : j + 1 = k + 1 => j = k
  BY <1>1
<1>5. IsInjective(s) => IsInjective(Tail(s))
  BY <1>3, <1>4 DEF IsInjective
<1>6. IsInjective(s) => Range(Tail(s)) = Range(s) \ {Head(s)}
  <2> SUFFICES ASSUME IsInjective(s) PROVE Range(Tail(s)) = Range(s) \ {Head(s)}
    OBVIOUS
  <2>1. Range(Tail(s)) \subseteq Range(s) \ {Head(s)}
    BY <1>1, <1>3 DEF IsInjective, Range
  <2>2. Range(s) \ {Head(s)} \subseteq Range(Tail(s))
    BY <1>1, <1>2 DEF Range
  <2> QED BY <2>1, <2>2
<1> QED BY <1>1, <1>5, <1>6 DEF Range

-----------------------------------------------------------------------------
\* The header and the messages on the list are all different.
LEMMA Apart ==
  ASSUME NEW q \in Seq(Threads), IsInjective(q)
  PROVE  /\ \A i \in 0 .. Len(q) + 1 : At(q, i) \in Nodes /\ (i \in 1 .. Len(q) <=> At(q, i) # None)
         /\ \A i, j \in 0 .. Len(q) : At(q, i) = At(q, j) => i = j
         /\ \A i, j \in 1 .. Len(q) + 1 : At(q, i) = At(q, j) => i = j
         /\ \A i \in 0 .. Len(q) + 1 : At(q, i) \in Range(q) \cup {None}
<1>1. /\ DOMAIN q = 1 .. Len(q) /\ Len(q) \in Nat
      /\ \A i \in 1 .. Len(q) : q[i] \in Threads /\ q[i] # None /\ q[i] \in Range(q)
      /\ \A i, j \in 1 .. Len(q) : q[i] = q[j] => i = j
  BY SemAssumption DEF SemAssumption, IsInjective, Range
<1> QED
  BY <1>1 DEF At, Nodes

\* A message is added at the list's end ...
LEMMA Added ==
  ASSUME Types, NEW q \in Seq(Threads), IsInjective(q), IsList(q), NEW n \in Threads, n \notin Range(q),
         AddTail(n)
  PROVE  IsList(Append(q, n))'
<1> DEFINE r == Append(q, n)
<1>1. /\ Len(q) \in Nat /\ Len(r) = Len(q) + 1 /\ r[Len(q) + 1] = n
      /\ \A i \in 1 .. Len(q) : r[i] = q[i]
  OBVIOUS
<1>2. /\ \A i \in 0 .. Len(q) : At(r, i) = At(q, i)
      /\ At(r, Len(q) + 1) = n /\ At(r, Len(q) + 2) = None
      /\ At(q, Len(q) + 1) = None /\ At(q, 0) = None
  BY <1>1 DEF At
<1>3. /\ n # None /\ n \in Nodes /\ None \in Nodes /\ pred[None] = At(q, Len(q))
      /\ \A i \in 0 .. Len(q) + 1 : At(q, i) # n /\ At(q, i) \in Nodes
  BY <1>1, <1>2, Apart, SemAssumption DEF SemAssumption, IsList, Nodes
<1>4. /\ \A m \in Nodes : succ'[m] = IF m = At(q, Len(q)) THEN n ELSE IF m = n THEN None ELSE succ[m]
      /\ \A m \in Nodes : pred'[m] = IF m = None THEN n ELSE IF m = n THEN At(q, Len(q)) ELSE pred[m]
  BY <1>1, <1>3 DEF AddTail, Types
<1> HIDE DEF r
<1>5. ASSUME NEW i \in 0 .. Len(q) + 1
      PROVE  succ'[At(r, i)] = At(r, i + 1) /\ pred'[At(r, i + 1)] = At(r, i)
  <2>1. CASE i < Len(q)
    <3>1. /\ At(r, i) = At(q, i) /\ At(r, i + 1) = At(q, i + 1)
          /\ At(q, i) # At(q, Len(q)) /\ At(q, i + 1) # None
          /\ succ[At(q, i)] = At(q, i + 1) /\ pred[At(q, i + 1)] = At(q, i)
      BY <1>1, <1>2, <2>1, Apart DEF IsList
    <3>2. At(q, i) \in Nodes /\ At(q, i + 1) \in Nodes /\ At(q, i) # n /\ At(q, i + 1) # n
      BY <1>1, <1>3, <2>1
    <3> QED
      BY <1>4, <3>1, <3>2
  <2>2. CASE i = Len(q)
    <3>1. At(r, i) = At(q, Len(q)) /\ At(r, i + 1) = n /\ At(q, Len(q)) \in Nodes
      BY <1>1, <1>2, <1>3, <2>2
    <3> QED
      BY <1>3, <1>4, <3>1
  <2>3. CASE i = Len(q) + 1
    <3>1. At(r, i) = n /\ At(r, i + 1) = None /\ At(q, Len(q)) # n
      BY <1>1, <1>2, <1>3, <2>3
    <3> QED
      BY <1>3, <1>4, <3>1
  <2> QED
    BY <1>1, <2>1, <2>2, <2>3
<1> QED
  BY <1>1, <1>5 DEF IsList, At, r

\* ... and taken out of it from where it is.
LEMMA Unlinked ==
  ASSUME NEW q \in Seq(Threads), IsInjective(q), IsList(q), NEW k \in 1 .. Len(q),
         \A m \in Nodes : m # q[k] => /\ succ'[m] = IF m = pred[q[k]] THEN succ[q[k]] ELSE succ[m]
                                      /\ pred'[m] = IF m = succ[q[k]] THEN pred[q[k]] ELSE pred[m]
  PROVE  IsList(RemoveAt(q, k))'
<1> DEFINE r == RemoveAt(q, k)
<1>1. /\ Len(q) \in Nat /\ Len(r) = Len(q) - 1 /\ k \in DOMAIN q
      /\ \A i \in 1 .. Len(q) - 1 : r[i] = q[IF i < k THEN i ELSE i + 1]
  <2>1. k \in DOMAIN q /\ Len(q) \in Nat
    OBVIOUS
  <2> QED
    BY <2>1, RemovedAt, Zenon
<1> HIDE DEF r
<1>2. \A i \in 0 .. Len(q) : At(r, i) = IF i < k THEN At(q, i) ELSE At(q, i + 1)
  BY <1>1 DEF At
<1>3. q[k] = At(q, k) /\ pred[q[k]] = At(q, k - 1) /\ succ[q[k]] = At(q, k + 1)
  <2>1. q[k] = At(q, k)
    BY DEF At
  <2>2. k \in 0 .. Len(q) /\ k - 1 \in 0 .. Len(q) /\ (k - 1) + 1 = k
    BY <1>1
  <2> QED
    BY <2>1, <2>2 DEF IsList
<1>4. ASSUME NEW i \in 0 .. Len(q) - 1
      PROVE  succ'[At(r, i)] = At(r, i + 1) /\ pred'[At(r, i + 1)] = At(r, i)
  <2>1. CASE i < k - 1
    <3>1. At(r, i) = At(q, i) /\ At(r, i + 1) = At(q, i + 1)
      BY <1>1, <1>2, <2>1
    <3>2. i \in 0 .. Len(q) /\ i + 1 \in 1 .. Len(q) /\ i # k - 1 /\ i + 1 # k + 1 /\ i # k /\ i + 1 # k
          /\ k \in 0 .. Len(q) /\ k - 1 \in 0 .. Len(q) /\ k + 1 \in 1 .. Len(q) + 1 /\ i + 1 \in 1 .. Len(q) + 1
          /\ k \in 1 .. Len(q) + 1 /\ i \in 0 .. Len(q) + 1 /\ i + 1 \in 0 .. Len(q) + 1
      BY <1>1, <2>1
    <3>3. /\ At(q, i) # At(q, k - 1) /\ At(q, i + 1) # At(q, k + 1) /\ At(q, i) # q[k] /\ At(q, i + 1) # q[k]
          /\ At(q, i) \in Nodes /\ At(q, i + 1) \in Nodes
      BY <1>3, <3>2, Apart
    <3>4. succ[At(q, i)] = At(q, i + 1) /\ pred[At(q, i + 1)] = At(q, i)
      BY <3>2 DEF IsList
    <3> QED
      BY <1>3, <3>1, <3>3, <3>4
  <2>2. CASE i = k - 1
    <3>1. At(r, i) = At(q, k - 1) /\ At(r, i + 1) = At(q, k + 1)
      BY <1>1, <1>2, <2>2
    <3>2. k \in 0 .. Len(q) /\ k - 1 \in 0 .. Len(q) /\ k + 1 \in 1 .. Len(q) + 1 /\ k - 1 # k /\ k + 1 # k
          /\ k \in 1 .. Len(q) + 1 /\ k + 1 \in 0 .. Len(q) + 1 /\ k - 1 \in 0 .. Len(q) + 1
      BY <1>1, <2>2
    <3>3. At(q, k - 1) \in Nodes /\ At(q, k + 1) \in Nodes /\ At(q, k - 1) # q[k] /\ At(q, k + 1) # q[k]
      BY <1>3, <3>2, Apart
    <3> QED
      BY <1>3, <3>1, <3>3
  <2>3. CASE i >= k
    <3>1. At(r, i) = At(q, i + 1) /\ At(r, i + 1) = At(q, i + 2)
      <4>1. i \in 0 .. Len(q) /\ i + 1 \in 0 .. Len(q) /\ ~(i < k) /\ ~(i + 1 < k) /\ (i + 1) + 1 = i + 2
        BY <1>1, <2>3
      <4> QED
        BY <1>2, <4>1
    <3>2. i + 1 \in 0 .. Len(q) /\ i + 2 \in 1 .. Len(q) + 1 /\ i + 1 # k - 1 /\ i + 2 # k + 1
          /\ i + 1 # k /\ i + 2 # k /\ (i + 1) + 1 = i + 2
          /\ k \in 0 .. Len(q) /\ k - 1 \in 0 .. Len(q) /\ k + 1 \in 1 .. Len(q) + 1
          /\ k \in 1 .. Len(q) + 1 /\ i + 1 \in 0 .. Len(q) + 1 /\ i + 2 \in 0 .. Len(q) + 1
      BY <1>1, <2>3
    <3>3. /\ At(q, i + 1) # At(q, k - 1) /\ At(q, i + 2) # At(q, k + 1)
          /\ At(q, i + 1) # q[k] /\ At(q, i + 2) # q[k]
          /\ At(q, i + 1) \in Nodes /\ At(q, i + 2) \in Nodes
      BY <1>3, <3>2, Apart
    <3>4. succ[At(q, i + 1)] = At(q, i + 2) /\ pred[At(q, i + 2)] = At(q, i + 1)
      BY <3>2 DEF IsList
    <3> QED
      BY <1>3, <3>1, <3>3, <3>4
  <2> QED
    BY <1>1, <2>1, <2>2, <2>3
<1> QED
  BY <1>1, <1>4 DEF IsList, At, r

\* Its orders are what TLC enumerates.
LEMMA Ordered == ASSUME NEW q \in Seq(Threads), IsInjective(q) PROVE q \in Orders
<1>1. Len(q) \in Nat /\ q \in [1 .. Len(q) -> Threads] /\ DOMAIN q = 1 .. Len(q)
  OBVIOUS
<1>2. Range(q) \subseteq Threads /\ q \in [1 .. Len(q) -> Range(q)] /\ \A t \in Range(q) : \E i \in 1 .. Len(q) : q[i] = t
  BY <1>1 DEF Range
<1>3. ExistsBijection(1 .. Len(q), Range(q))
  BY <1>1, <1>2 DEF ExistsBijection, Bijection, Injection, Surjection, IsInjective
<1>4. Cardinality(Range(q)) = Len(q)
  BY <1>1, <1>3, FS_CountingElements
<1>5. Cardinality(Range(q)) <= Cardinality(Threads) /\ Cardinality(Threads) \in Nat
  BY <1>2, SemAssumption, FS_Subset, FS_CardinalityType DEF SemAssumption
<1>6. Len(q) \in 0 .. Cardinality(Threads)
  BY <1>1, <1>4, <1>5
<1> QED
  BY <1>1, <1>6 DEF Orders

\* A set of numbers that is not empty has a least one.
LEMMA Least == ASSUME NEW S \in SUBSET Nat, S # {} PROVE \E k \in S : \A j \in S : k <= j
<1> DEFINE Less == OpToRel(<, Nat)
<1>1. PICK k \in S : \A x \in S : ~ (<<x, k>> \in Less)
  <2> HIDE DEF Less
  <2>1. IsWellFoundedOn(Less, Nat)
    BY NatLessThanWellFounded DEF Less
  <2> QED BY <2>1, WFMin, Zenon
<1>2. \A x \in S : ~ (x < k)
  BY <1>1 DEF OpToRel
<1> QED BY <1>2

\* There is one such order only: it holds whatever can be reached from the header.
LEMMA Reached ==
  ASSUME NEW q \in Seq(Threads), IsList(q), NEW S,
         succ[None] \in S \cup {None}, \A n \in S : succ[n] \in S \cup {None}
  PROVE  Range(q) \subseteq S \cup {None}
<1> DEFINE B == {i \in 1 .. Len(q) : q[i] \notin S \cup {None}}
<1>1. Len(q) \in Nat /\ DOMAIN q = 1 .. Len(q)
  OBVIOUS
<1>2. B = {}
  <2> SUFFICES ASSUME B # {} PROVE FALSE
    OBVIOUS
  <2>1. PICK k \in B : \A j \in B : k <= j
    <3>1. B \in SUBSET Nat
      BY <1>1
    <3> HIDE DEF B
    <3> QED BY <3>1, Least
  <2>2. k \in 1 .. Len(q) /\ q[k] \notin S \cup {None} /\ At(q, k) = q[k]
    BY DEF At
  <2>3. k - 1 \in 0 .. Len(q) /\ (k - 1) + 1 = k /\ ~(k <= k - 1)
    BY <1>1, <2>2
  <2>4. succ[At(q, k - 1)] = q[k]
    BY <2>2, <2>3 DEF IsList
  <2>5. At(q, k - 1) \in S \cup {None}
    BY <1>1, <2>1, <2>3 DEF At
  <2> QED
    BY <2>2, <2>4, <2>5
<1> QED
  BY <1>1, <1>2 DEF Range

-----------------------------------------------------------------------------
\* With no message in the port, who is held and who may still come.
LEMMA PortEmpty ==
  /\ port = <<>> => /\ Held = {t \in Threads : pc[t] = "asleep" /\ ~Reply(t)}
                    /\ Coming = {t \in Threads : pc[t] = "blocking"}
  /\ port' = <<>> => /\ Held' = {t \in Threads : pc'[t] = "asleep" /\ ~(Reply(t))'}
                     /\ Coming' = {t \in Threads : pc'[t] = "blocking"}
BY DEF Held, Coming, Range

\* With one message.
LEMMA PortOne ==
  ASSUME NEW m
  PROVE  /\ port = <<m>> =>
               /\ Held = {t \in Threads : pc[t] = "asleep" /\ ~Reply(t) /\ m # Msg("BLOCK", t)}
               /\ Coming = {t \in Threads : pc[t] = "blocking" \/ m = Msg("BLOCK", t)}
         /\ port' = <<m>> =>
               /\ Held' = {t \in Threads : pc'[t] = "asleep" /\ ~(Reply(t))' /\ m # Msg("BLOCK", t)}
               /\ Coming' = {t \in Threads : pc'[t] = "blocking" \/ m = Msg("BLOCK", t)}
<1>1. port = <<m>> => Range(port) = {m}
  BY DEF Range
<1>2. port' = <<m>> => Range(port') = {m}
  BY DEF Range
<1> QED
  BY <1>1, <1>2 DEF Held, Coming

\* A step that changes no link of a message held.
LEMMA LinksKept ==
  ASSUME SemIInv, Held' = Held, overwritten' = overwritten, Over' <=> Over,
         Over => Coming' \subseteq Coming,
         \A n \in Held \cup {None} : succ'[n] = succ[n] /\ pred'[n] = pred[n]
  PROVE  Listed'
<1>1. CASE Over
  <2>1. Links
    BY <1>1 DEF SemIInv, Listed
  <2>2. Back' /\ Agree' /\ Forth' /\ Stale' /\ Named'
    BY <1>1, <2>1 DEF Links, Back, Agree, Forth, Stale, Named
  <2> QED
    BY <1>1, <2>2 DEF Listed, Links
<1>2. CASE ~Over
  <2>1. Whole /\ overwritten = {}
    BY <1>2 DEF SemIInv, Listed
  <2>2. PICK q \in Seq(Threads) : IsInjective(q) /\ IsList(q) /\ Range(q) = Held
    BY <2>1 DEF Whole
  <2>3. \A i \in 0 .. Len(q) : /\ succ'[At(q, i)] = succ[At(q, i)]
                               /\ pred'[At(q, i + 1)] = pred[At(q, i + 1)]
    <3>1. \A i \in 0 .. Len(q) : i \in 0 .. Len(q) + 1 /\ i + 1 \in 0 .. Len(q) + 1
      OBVIOUS
    <3> QED
      BY <2>2, <3>1, Apart
  <2>4. IsList(q)'
    BY <2>2, <2>3 DEF IsList
  <2> QED
    BY <1>2, <2>1, <2>2, <2>4 DEF Listed, Whole
<1> QED
  BY <1>1, <1>2

\* While the list is whole, it names those held only.
LEMMA WholeNames ==
  ASSUME NEW q \in Seq(Threads), IsInjective(q), IsList(q), Range(q) = Held
  PROVE  \A n \in Held \cup {None} : succ[n] \in Held \cup {None} /\ pred[n] \in Held \cup {None}
<1>1. ASSUME NEW n \in Held \cup {None}
      PROVE  succ[n] \in Held \cup {None} /\ pred[n] \in Held \cup {None}
  <2>1. Len(q) \in Nat /\ DOMAIN q = 1 .. Len(q)
    OBVIOUS
  <2>2. CASE n = None
    <3>1. At(q, 0) = None /\ At(q, Len(q) + 1) = None /\ 0 \in 0 .. Len(q) /\ Len(q) \in 0 .. Len(q)
          /\ 0 + 1 \in 0 .. Len(q) + 1 /\ Len(q) \in 0 .. Len(q) + 1
      BY <2>1 DEF At
    <3>2. succ[None] = At(q, 0 + 1) /\ pred[None] = At(q, Len(q))
      BY <3>1 DEF IsList
    <3> QED
      BY <2>2, <3>1, <3>2, Apart
  <2>3. CASE n # None
    <3>1. PICK i \in 1 .. Len(q) : q[i] = n
      BY <2>1, <2>3 DEF Range
    <3>2. i \in 0 .. Len(q) /\ i + 1 \in 0 .. Len(q) + 1 /\ i - 1 \in 0 .. Len(q) + 1 /\ i - 1 \in 0 .. Len(q)
          /\ (i - 1) + 1 = i
      BY <2>1
    <3>3. At(q, i) = n
      BY <3>1 DEF At
    <3>4. succ[n] = At(q, i + 1) /\ pred[n] = At(q, i - 1)
      BY <3>2, <3>3 DEF IsList
    <3> QED
      BY <3>2, <3>4, Apart
  <2> QED
    BY <2>2, <2>3
<1> QED
  BY <1>1

\* A message is taken out of the list while it is whole.
LEMMA UnlinkWhole ==
  ASSUME Types, Whole, NEW t \in Held, Held' = Held \ {t},
         \A m \in Nodes : m # t => /\ succ'[m] = IF m = pred[t] THEN succ[t] ELSE succ[m]
                                   /\ pred'[m] = IF m = succ[t] THEN pred[t] ELSE pred[m]
  PROVE  Whole' /\ succ[t] \in Held \cup {None} /\ pred[t] \in Held \cup {None}
<1>1. PICK q \in Seq(Threads) : IsInjective(q) /\ IsList(q) /\ Range(q) = Held
  BY DEF Whole
<1>2. PICK k \in 1 .. Len(q) : q[k] = t
  BY <1>1 DEF Range
<1>3. IsList(RemoveAt(q, k))'
  BY <1>1, <1>2, Unlinked
<1>4. k \in DOMAIN q
  BY <1>2
<1>5. /\ RemoveAt(q, k) \in Seq(Threads) /\ IsInjective(RemoveAt(q, k))
      /\ Range(RemoveAt(q, k)) = Held \ {t}
  BY <1>1, <1>2, <1>4, RemovedSleeper
<1>6. Whole'
  BY <1>3, <1>5 DEF Whole
<1> QED
  BY <1>1, <1>6, WholeNames

\* A message is taken out of what DESTROY has left of it.
LEMMA UnlinkLinks ==
  ASSUME Types, Links, NEW t \in Held, Unlink(t), Held' = Held \ {t}, Coming' = Coming,
         overwritten' = overwritten \cup ({succ[t], pred[t]} \ (Held \cup {None}))
  PROVE  Links'
<1> DEFINE p == pred[t]
           s == succ[t]
<1>1. /\ t \in Nodes /\ None \in Nodes /\ t # None /\ Held \subseteq Nodes /\ None \notin Held
      /\ p \in Held \cup {None} /\ s \in Nodes
  BY SemAssumption DEF SemAssumption, Nodes, Held, Types, Links, Back
<1>2. /\ \A m \in Held' \cup {None} : m \in Held \cup {None} /\ m # t /\ m \in Nodes
      /\ \A m \in Held \cup {None} : m # t => m \in Held' \cup {None}
      /\ None \notin Held'
  BY <1>1
<1>3. \A m \in Held' \cup {None} : /\ succ'[m] = IF m = p THEN s ELSE succ[m]
                                   /\ pred'[m] = IF m = s THEN p ELSE pred[m]
  BY <1>1, <1>2 DEF Unlink, Types
<1>4. /\ \A n \in Held \cup {None} : pred[n] \in Held \cup {None}
      /\ \A u \in Held : pred[u] # None => succ[pred[u]] = u
      /\ pred[None] # None => succ[pred[None]] = None
      /\ \A u \in Held : pred[u] # None /\ succ[u] # None => succ[u] \in Held /\ pred[succ[u]] = u
      /\ \A n \in Held \cup {None} : succ[n] \in Held => pred[succ[n]] \in {n, None}
      /\ \A n \in Held \cup {None} : succ[n] \notin Coming
      /\ \A u \in Held : pred[u] = None => succ[u] # u
      /\ succ[None] \in Held \cup {None} \cup overwritten
  BY DEF Links, Back, Agree, Forth, Stale, Named
<1> HIDE DEF p, s
<1>5. p = pred[t] /\ s = succ[t]
  BY DEF p, s
<1>6. Back'
  <2> SUFFICES ASSUME NEW n \in Held' \cup {None} PROVE pred'[n] \in Held' \cup {None}
    BY DEF Back
  <2>1. CASE n = s
    BY <1>1, <1>2, <1>3, <1>4, <1>5, <2>1
  <2>2. CASE n # s
    BY <1>1, <1>2, <1>3, <1>4, <1>5, <2>2
  <2> QED BY <2>1, <2>2
<1>7. Agree'
  <2>1. ASSUME NEW u \in Held', pred'[u] # None PROVE succ'[pred'[u]] = u
    BY <1>1, <1>2, <1>3, <1>4, <1>5, <1>6, <2>1 DEF Back
  <2>2. pred'[None] # None => succ'[pred'[None]] = None
    BY <1>1, <1>2, <1>3, <1>4, <1>5, <1>6 DEF Back
  <2> QED BY <2>1, <2>2 DEF Agree
<1>8. Forth'
  <2> SUFFICES ASSUME NEW u \in Held', pred'[u] # None, succ'[u] # None
               PROVE  succ'[u] \in Held' /\ pred'[succ'[u]] = u
    BY DEF Forth
  <2>1. u \in Held /\ u # t /\ u # None /\ succ'[u] = (IF u = p THEN s ELSE succ[u])
        /\ pred'[u] = (IF u = s THEN p ELSE pred[u])
    BY <1>1, <1>2, <1>3
  <2>2. CASE u = s
    <3>1. p # None /\ pred[u] = t
      BY <1>4, <1>5, <2>1, <2>2
    <3>2. CASE u = p
      BY <1>1, <1>2, <1>3, <2>1, <2>2, <3>1, <3>2
    <3>3. CASE u # p
      <4>1. succ[u] \in Held /\ pred[succ[u]] = u
        BY <1>1, <1>4, <2>1, <3>1, <3>3
      <4>2. succ[u] # t /\ succ[u] # s
        BY <1>5, <2>1, <2>2, <3>1, <3>3, <4>1
      <4> QED
        BY <1>2, <1>3, <2>1, <3>3, <4>1, <4>2
    <3> QED BY <3>2, <3>3
  <2>3. CASE u # s /\ u = p
    <3>1. s \in Held /\ pred[s] = t /\ s # t
      BY <1>4, <1>5, <2>1, <2>3
    <3> QED
      BY <1>2, <1>3, <2>1, <2>3, <3>1
  <2>4. CASE u # s /\ u # p
    <3>1. succ[u] \in Held /\ pred[succ[u]] = u /\ succ[u] # t
      BY <1>4, <1>5, <2>1, <2>4
    <3>2. succ[u] # s
      BY <1>4, <1>5, <2>1, <2>4, <3>1
    <3> QED
      BY <1>2, <1>3, <2>1, <2>4, <3>1, <3>2
  <2> QED
    BY <2>2, <2>3, <2>4
<1>9. Stale'
  <2>1. ASSUME NEW n \in Held' \cup {None}, succ'[n] \in Held'
        PROVE  pred'[succ'[n]] \in {n, None}
    <3>1. n \in Held \cup {None} /\ n # t /\ succ'[n] = (IF n = p THEN s ELSE succ[n]) /\ succ'[n] \in Held
      BY <1>1, <1>2, <1>3, <2>1
    <3>2. CASE n = p
      BY <1>2, <1>3, <2>1, <3>1, <3>2
    <3>3. CASE n # p /\ succ[n] = s
      <4>1. pred[s] \in {n, None} /\ pred[s] \in {t, None}
        BY <1>4, <1>5, <3>1, <3>3
      <4>2. p = None
        BY <1>1, <1>4, <1>5, <3>1, <3>3, <4>1
      <4> QED
        BY <1>2, <1>3, <2>1, <3>1, <3>3, <4>2
    <3>4. CASE n # p /\ succ[n] # s
      BY <1>2, <1>3, <1>4, <2>1, <3>1, <3>4
    <3> QED
      BY <3>2, <3>3, <3>4
  <2>2. \A n \in Held' \cup {None} : succ'[n] \notin Coming'
    BY <1>1, <1>2, <1>3, <1>4, <1>5
  <2>3. ASSUME NEW u \in Held', pred'[u] = None, succ'[u] = u
        PROVE  FALSE
    <3>1. u \in Held /\ u # t /\ u # None /\ u = (IF u = p THEN s ELSE succ[u])
          /\ None = (IF u = s THEN p ELSE pred[u])
      BY <1>1, <1>2, <1>3, <2>3
    <3>2. CASE u = p
      BY <1>4, <1>5, <3>1, <3>2
    <3>3. CASE u # p
      BY <1>4, <1>5, <3>1, <3>3
    <3> QED
      BY <3>2, <3>3
  <2> QED
    BY <2>1, <2>2, <2>3 DEF Stale
<1>10. Named'
  <2>1. CASE p = None
    <3>1. s # t /\ succ'[None] = s
      BY <1>2, <1>3, <1>4, <1>5, <2>1
    <3> QED
      BY <1>1, <1>2, <1>5, <3>1 DEF Named
  <2>2. CASE p # None
    <3>1. succ'[None] = succ[None] /\ succ[None] # t
      BY <1>2, <1>3, <1>4, <1>5, <2>2
    <3> QED
      BY <1>2, <1>4, <3>1 DEF Named
  <2> QED
    BY <2>1, <2>2
<1> QED
  BY <1>6, <1>7, <1>8, <1>9, <1>10 DEF Links

\* A message comes onto the list of a semaphore that is gone.
LEMMA AddLinks ==
  ASSUME Types, Links, NEW t \in Threads, t \notin Held, t \in Coming, AddTail(t),
         Held' = Held \cup {t}, Coming' = Coming \ {t}, overwritten' = overwritten
  PROVE  Links'
<1> DEFINE p == pred[None]
<1>1. /\ t \in Nodes /\ None \in Nodes /\ t # None /\ Held \subseteq Nodes /\ None \notin Held
      /\ p \in Held \cup {None} /\ p \in Nodes /\ p # t
  BY SemAssumption DEF SemAssumption, Nodes, Held, Types, Links, Back
<1>2. \A m \in Held \cup {None} : m \in Nodes /\ m # t
  BY <1>1
<1>3. /\ \A m \in Held \cup {None} : /\ succ'[m] = IF m = p THEN t ELSE succ[m]
                                     /\ pred'[m] = IF m = None THEN t ELSE pred[m]
      /\ succ'[t] = None /\ pred'[t] = p
  BY <1>1, <1>2 DEF AddTail, Types
<1>4. /\ \A n \in Held \cup {None} : pred[n] \in Held \cup {None}
      /\ \A u \in Held : pred[u] # None => succ[pred[u]] = u
      /\ pred[None] # None => succ[pred[None]] = None
      /\ \A u \in Held : pred[u] # None /\ succ[u] # None => succ[u] \in Held /\ pred[succ[u]] = u
      /\ \A n \in Held \cup {None} : succ[n] \in Held => pred[succ[n]] \in {n, None}
      /\ \A n \in Held \cup {None} : succ[n] \notin Coming
      /\ \A u \in Held : pred[u] = None => succ[u] # u
      /\ succ[None] \in Held \cup {None} \cup overwritten
  BY DEF Links, Back, Agree, Forth, Stale, Named
<1>5. p = pred[None] /\ \A n \in Held \cup {None} : succ[n] # t
  BY <1>4
<1> HIDE DEF p
<1>6. Back'
  BY <1>1, <1>3, <1>4 DEF Back
<1>7. Agree'
  <2>1. ASSUME NEW u \in Held', pred'[u] # None PROVE succ'[pred'[u]] = u
    BY <1>1, <1>3, <1>4, <1>5, <2>1
  <2>2. pred'[None] # None => succ'[pred'[None]] = None
    BY <1>1, <1>3
  <2> QED BY <2>1, <2>2 DEF Agree
<1>8. Forth'
  <2> SUFFICES ASSUME NEW u \in Held', pred'[u] # None, succ'[u] # None
               PROVE  succ'[u] \in Held' /\ pred'[succ'[u]] = u
    BY DEF Forth
  <2> QED
    BY <1>1, <1>3, <1>4, <1>5
<1>9. Stale'
  <2>1. ASSUME NEW n \in Held' \cup {None}, succ'[n] \in Held'
        PROVE  pred'[succ'[n]] \in {n, None}
    BY <1>1, <1>3, <1>4, <1>5, <2>1
  <2>2. \A n \in Held' \cup {None} : succ'[n] \notin Coming'
    <3>1. None \notin Coming'
      BY SemAssumption DEF SemAssumption, Coming
    <3> QED
      BY <1>1, <1>3, <1>4, <3>1
  <2>3. \A u \in Held' : pred'[u] = None => succ'[u] # u
    BY <1>1, <1>3, <1>4
  <2> QED
    BY <2>1, <2>2, <2>3 DEF Stale
<1>10. Named'
  BY <1>1, <1>3, <1>4 DEF Named
<1> QED
  BY <1>6, <1>7, <1>8, <1>9, <1>10 DEF Links

-----------------------------------------------------------------------------
\* The tasks let through can be counted, before and after a step.
LEMMA Counted ==
  /\ IsFiniteSet(LetThrough) /\ Cardinality(LetThrough) \in Nat
  /\ IsFiniteSet(LetThrough') /\ Cardinality(LetThrough') \in Nat
  /\ Cardinality(Threads) \in Nat /\ Cardinality(Threads) >= 1
<1>1. LetThrough \subseteq Threads /\ LetThrough' \subseteq Threads
  BY DEF LetThrough
<1>2. IsFiniteSet(LetThrough) /\ IsFiniteSet(LetThrough')
  BY <1>1, SemAssumption, FS_Subset, Zenon DEF SemAssumption
<1>3. Cardinality(Threads) \in Nat /\ Cardinality(Threads) # 0
  BY SemAssumption, FS_CardinalityType, FS_EmptySet DEF SemAssumption
<1> QED
  BY <1>2, <1>3, FS_CardinalityType

\* The first state: nobody is let through, and no message is there.
LEMMA SemInitIInv == SemInit => SemIInv
<1> SUFFICES ASSUME SemInit PROVE SemIInv
  OBVIOUS
<1> USE SemAssumption DEF SemAssumption
<1>1. Types
  BY DEF SemInit, Types, PC, Nodes
<1>2. Message /\ ~Over /\ ~Pending("UNBLOCK") /\ ~Pending("BLOCK")
  BY DEF SemInit, Message, Over, Pending
<1>3. Answers /\ Held = {}
  BY PortEmpty DEF SemInit, Answers, Reply
<1>7. Listed
  <2>1. <<>> \in Seq(Threads) /\ IsInjective(<<>>) /\ Range(<<>>) = {} /\ Len(<<>>) = 0
    BY DEF IsInjective, Range
  <2>2. succ[None] = None /\ pred[None] = None
    BY DEF SemInit, Nodes
  <2>3. IsList(<<>>)
    BY <2>1, <2>2 DEF IsList, At
  <2> QED
    BY <1>2, <1>3, <2>1, <2>3 DEF SemInit, Listed, Whole
<1>4. LetThrough = {}
  BY DEF SemInit, LetThrough
<1>5. Counts
  BY <1>2, <1>4, Counted, FS_EmptySet DEF SemInit, Counts
<1>6. Spoken
  BY <1>2, <1>3 DEF SemInit, Spoken, Waiters
<1> QED
  BY <1>1, <1>2, <1>3, <1>5, <1>6, <1>7 DEF SemIInv

-----------------------------------------------------------------------------
\* A step of a task that sends nothing: the port is empty before and after.
LEMMA NothingSent ==
  ASSUME SemIInv, port = <<>>, port' = port
  PROVE  /\ Message' /\ \A type : ~Pending(type) /\ ~Pending(type)'
         /\ (Over <=> ~live) /\ (Over' <=> ~live')
         /\ Waiters <=> Held # {} \/ \E u \in Threads : pc[u] = "blocking"
         /\ Waiters' <=> Held' # {} \/ \E u \in Threads : pc'[u] = "blocking"
BY DEF SemIInv, Types, Message, Pending, Waiters, Over

\* ... and if it changes neither links nor who is held nor whether the semaphore
\* lives, the list stays what it is.
LEMMA NothingListed ==
  ASSUME SemIInv, port = <<>>, port' = port, UNCHANGED <<succ, pred, overwritten, live>>, Held' = Held,
         live \/ \A u \in Threads : pc'[u] = "blocking" => pc[u] = "blocking"
  PROVE  Listed'
<1>1. Over => Coming' \subseteq Coming
  BY PortEmpty, NothingSent
<1>2. Over' <=> Over
  BY NothingSent
<1> QED
  BY <1>1, <1>2, LinksKept

\* A task takes a unit that is there.
LEMMA TakeIInv == ASSUME SemIInv, NEW t \in Threads, Take(t) PROVE SemIInv'
<1>1. /\ port = <<>> /\ value > 0 /\ value' = value - 1
      /\ UNCHANGED <<live, mutex, succ, pred, port, signal, posts, breaks, missed, overwritten>>
  BY DEF Take, Goto, proxyVars, linkVars, histVars
<1>2. pc' = pc
  BY DEF Take, Goto, SemIInv, Types
<1>3. LetThrough' = LetThrough
  BY <1>1, <1>2 DEF LetThrough, Reply
<1>4. Types' /\ Answers' /\ Held' = Held
  BY <1>1, <1>2 DEF SemIInv, Types, Answers, Held, Reply
<1>7. Listed'
  BY <1>1, <1>2, <1>4, NothingListed
<1>5. Counts'
  <2>1. Counts /\ value \in Int /\ posts \in Int /\ Initial \in Int
    BY SemAssumption DEF SemIInv, Types, SemAssumption
  <2>2. ~Pending("UNBLOCK") /\ ~Pending("UNBLOCK")' /\ posts' = posts
    BY <1>1, NothingSent
  <2> QED
    BY ONLY <1>1, <1>3, <2>1, <2>2, Counted DEF Counts
<1>6. Spoken'
  BY <1>1, <1>2, <1>3, <1>4, NothingSent DEF SemIInv, Spoken, Types
<1> QED
  BY <1>1, <1>4, <1>5, <1>6, <1>7, NothingSent DEF SemIInv

\* A task goes to wait on a count that is used up.
LEMMA WaitBeginIInv == ASSUME SemIInv, NEW t \in Threads, WaitBegin(t) PROVE SemIInv'
<1>1. /\ port = <<>> /\ value <= 0 /\ pc[t] = "idle" /\ pc' = [pc EXCEPT ![t] = "blocking"] /\ live
      /\ UNCHANGED <<value, live, mutex, succ, pred, port, signal, posts, breaks, missed, overwritten>>
  BY DEF WaitBegin, Goto, countVars, proxyVars, linkVars, histVars
<1>2. LetThrough' = LetThrough
  BY <1>1 DEF LetThrough, Reply, SemIInv, Types
<1>3. Types' /\ Answers'
  BY <1>1 DEF SemIInv, Types, Answers, PC, Reply
<1>7. Held' = Held
  BY <1>1 DEF SemIInv, Types, Held, Reply
<1>4. Listed'
  BY <1>1, <1>7, NothingListed
<1>5. Counts'
  BY <1>1, <1>2, NothingSent DEF SemIInv, Counts
<1>6. Spoken'
  BY <1>1, <1>7, NothingSent DEF SemIInv, Spoken, Types
<1> QED
  BY <1>1, <1>3, <1>4, <1>5, <1>6, NothingSent DEF SemIInv

\* It sends BLOCK, or is broken before it can.
LEMMA BlockMeIInv == ASSUME SemIInv, NEW t \in Threads, BlockMe(t) PROVE SemIInv'
<1>1. /\ port = <<>> /\ pc[t] = "blocking"
      /\ UNCHANGED <<value, live, mutex, succ, pred, posts, breaks, missed, overwritten>>
  BY DEF BlockMe, Goto, countVars, linkVars, histVars
<1>2. Waiters
  BY <1>1 DEF Waiters
<1>3. t \notin Held /\ Types /\ Answers
  BY <1>1 DEF SemIInv, Held
<1>4. CASE Answered(t)
  <2>1. port' = port /\ pc' = [pc EXCEPT ![t] = "broken"] /\ signal' = [signal EXCEPT ![t] = {}]
    BY <1>4 DEF BlockMe, Goto, Forget
  <2>2. LetThrough' = LetThrough
    BY <1>1, <2>1 DEF LetThrough, Reply, SemIInv, Types
  <2>3. Types' /\ Answers'
    BY <1>1, <1>3, <2>1 DEF Types, Answers, PC, Reply
  <2>7. Held' = Held
    <3>1. \A u \in Threads : pc'[u] = "asleep" /\ ~(Reply(u))' <=> pc[u] = "asleep" /\ ~Reply(u)
      BY <1>1, <1>3, <2>1 DEF Types, Reply
    <3> QED
      BY <1>1, <2>1, <3>1, PortEmpty
  <2>4. Listed'
    <3>1. \A u \in Threads : pc'[u] = "blocking" => pc[u] = "blocking"
      BY <1>3, <2>1 DEF Types
    <3> QED
      BY <1>1, <2>1, <2>7, <3>1, NothingListed
  <2>5. Counts'
    BY <1>1, <2>1, <2>2, NothingSent DEF SemIInv, Counts
  <2>6. Spoken'
    BY <1>1, <1>2, <2>1, <2>2, NothingSent DEF SemIInv, Spoken, Types
  <2> QED
    BY <1>1, <2>1, <2>3, <2>4, <2>5, <2>6, NothingSent DEF SemIInv
<1>5. CASE ~Answered(t)
  <2>1. /\ port' = <<Msg("BLOCK", t)>> /\ pc' = [pc EXCEPT ![t] = "asleep"] /\ signal' = signal
        /\ signal[t] = {}
    BY <1>1, <1>5 DEF BlockMe, Goto, Answered
  <2>2. port' # <<>> /\ Len(port') = 1 /\ port'[1] = [type |-> "BLOCK", from |-> t]
    BY <2>1 DEF Msg
  <2>3. LetThrough' = LetThrough
    BY <1>1, <2>1 DEF LetThrough, Reply, SemIInv, Types
  <2>4. Types' /\ Answers'
    BY <1>1, <1>3, <2>1, <2>2 DEF Types, Answers, PC, Msg, MsgType, Reply
  <2>5. Message'
    BY <1>1, <1>3, <2>1, <2>2 DEF Message, Pending, Reply, Types
  <2>7. ~Pending("UNBLOCK") /\ ~Pending("UNBLOCK")' /\ ~Pending("DESTROY") /\ ~Pending("DESTROY")'
    BY <1>1, <2>2 DEF Pending
  <2>10. Held' = Held /\ Coming' = Coming
    <3>1. \A u \in Threads : /\ Msg("BLOCK", t) = Msg("BLOCK", u) <=> t = u
                             /\ u # t => pc'[u] = pc[u]
                             /\ (Reply(u))' <=> Reply(u)
      BY <1>3, <2>1 DEF Msg, Types, Reply
    <3>2. pc'[t] = "asleep"
      BY <1>3, <2>1 DEF Types
    <3>3. /\ Held' = {u \in Threads : pc'[u] = "asleep" /\ ~(Reply(u))' /\ Msg("BLOCK", t) # Msg("BLOCK", u)}
          /\ Coming' = {u \in Threads : pc'[u] = "blocking" \/ Msg("BLOCK", t) = Msg("BLOCK", u)}
          /\ Held = {u \in Threads : pc[u] = "asleep" /\ ~Reply(u)}
          /\ Coming = {u \in Threads : pc[u] = "blocking"}
      BY <1>1, <2>1, PortOne, PortEmpty
    <3> QED
      BY <1>1, <3>1, <3>2, <3>3
  <2>6. Listed'
    BY <1>1, <2>7, <2>10, LinksKept DEF Over
  <2>8. Counts'
    BY <1>1, <2>3, <2>7 DEF SemIInv, Counts
  <2>9. Spoken'
    BY <1>1, <1>2, <2>3, <2>7 DEF SemIInv, Spoken
  <2> QED
    BY <2>4, <2>5, <2>6, <2>8, <2>9 DEF SemIInv
<1> QED
  BY <1>4, <1>5

\* Its Wait returns; a broken task takes itself off the list.
LEMMA WaitAnsweredIInv == ASSUME SemIInv, NEW t \in Threads, WaitAnswered(t) PROVE SemIInv'
<1>1. /\ port = <<>> /\ pc[t] = "asleep" /\ signal' = [signal EXCEPT ![t] = {}]
      /\ pc' = [pc EXCEPT ![t] = IF Reply(t) THEN "woken" ELSE "broken"]
      /\ UNCHANGED <<value, live, mutex, port, posts, breaks, missed>>
  BY DEF WaitAnswered, Goto, Forget, countVars
<1>2. LetThrough' = LetThrough
  BY <1>1 DEF LetThrough, Reply, SemIInv, Types
<1>3. Types /\ Types'
  <2>1. succ' \in [Nodes -> Nodes] /\ pred' \in [Nodes -> Nodes]
    BY DEF WaitAnswered, Forgotten, RemoveRequest, Unlink, SemIInv, Types, Nodes
  <2> QED
    BY <1>1, <2>1 DEF SemIInv, Types, PC
<1>4. Answers'
  BY <1>1 DEF SemIInv, Types, Answers, Reply
<1>5. Held' = Held \ {t} /\ Coming' = Coming
  <2>1. \A u \in Threads : /\ u # t => pc'[u] = pc[u] /\ ((Reply(u))' <=> Reply(u))
                           /\ pc'[t] \notin {"asleep", "blocking"}
    BY <1>1, <1>3 DEF Types, Reply
  <2> QED
    BY <1>1, <2>1, PortEmpty
<1>6. Listed'
  <2>1. CASE Reply(t)
    <3>1. t \notin Held /\ Forgotten(t) /\ overwritten' = overwritten /\ t # None
      BY <1>1, <2>1, SemAssumption DEF WaitAnswered, Held, SemAssumption
    <3>2. Held' = Held
      BY <1>5, <3>1
    <3>3. \A n \in Held \cup {None} : succ'[n] = succ[n] /\ pred'[n] = pred[n]
      BY <1>3, <3>1 DEF Forgotten, Types, Nodes, Held
    <3>4. Over' <=> Over
      BY <1>1, NothingSent
    <3> QED
      BY <1>5, <3>1, <3>2, <3>3, <3>4, LinksKept
  <2>2. CASE ~Reply(t)
    <3>1. t \in Held /\ RemoveRequest(t) /\ Unlink(t)
      BY <1>1, <2>2, PortEmpty DEF WaitAnswered, RemoveRequest
    <3>2. CASE live
      <4>1. Whole /\ overwritten = {}
        BY <1>1, <3>2, NothingSent DEF SemIInv, Listed
      <4>2. \A m \in Nodes : m # t => /\ succ'[m] = IF m = pred[t] THEN succ[t] ELSE succ[m]
                                      /\ pred'[m] = IF m = succ[t] THEN pred[t] ELSE pred[m]
        BY <1>3, <3>1 DEF Unlink, Types, Nodes
      <4>3. Whole' /\ succ[t] \in Held \cup {None} /\ pred[t] \in Held \cup {None}
        BY <1>3, <1>5, <3>1, <4>1, <4>2, UnlinkWhole
      <4>4. overwritten' = {}
        BY <3>1, <4>1, <4>3 DEF RemoveRequest
      <4> QED
        BY <1>1, <3>2, <4>3, <4>4, NothingSent DEF Listed
    <3>3. CASE ~live
      <4>1. Links
        BY <1>1, <3>3, NothingSent DEF SemIInv, Listed
      <4>2. overwritten' = overwritten \cup ({succ[t], pred[t]} \ (Held \cup {None}))
        BY <3>1 DEF RemoveRequest
      <4>3. Links'
        BY <1>3, <1>5, <3>1, <4>1, <4>2, UnlinkLinks
      <4> QED
        BY <1>1, <3>3, <4>3, NothingSent DEF Listed
    <3> QED
      BY <1>3, <3>2, <3>3 DEF Types
  <2> QED
    BY <2>1, <2>2
<1>7. Counts'
  BY <1>1, <1>2, NothingSent DEF SemIInv, Counts
<1>8. Waiters' => Waiters
  BY <1>1, <1>5, NothingSent DEF SemIInv, Types
<1>9. Spoken'
  BY <1>1, <1>2, <1>8, NothingSent DEF SemIInv, Spoken, Types
<1> QED
  BY <1>1, <1>3, <1>4, <1>6, <1>7, <1>9, NothingSent DEF SemIInv

\* A task comes back from a wait; one that was let through takes its unit.
LEMMA WaitEndIInv == ASSUME SemIInv, NEW t \in Threads, WaitEnd(t) PROVE SemIInv'
<1>1. /\ port = <<>> /\ pc' = [pc EXCEPT ![t] = "idle"]
      /\ \/ pc[t] = "woken" /\ value' = value - 1
         \/ pc[t] = "broken" /\ value' = value
      /\ UNCHANGED <<live, mutex, succ, pred, port, signal, posts, breaks, missed, overwritten>>
  BY DEF WaitEnd, Goto, proxyVars, linkVars, histVars
<1>2. Types' /\ Answers'
  BY <1>1 DEF SemIInv, Types, Answers, PC, Reply
<1>9. Held' = Held /\ \A u \in Threads : pc'[u] = "blocking" => pc[u] = "blocking"
  BY <1>1 DEF SemIInv, Types, Held, Reply
<1>3. Listed'
  BY <1>1, <1>9, NothingListed
<1>4. Waiters' => Waiters
  BY <1>1, <1>9, NothingSent DEF SemIInv, Types
<1>5. CASE pc[t] = "woken" /\ value' = value - 1
  <2>1. t \in LetThrough /\ LetThrough' = LetThrough \ {t}
    BY <1>1, <1>5 DEF LetThrough, Reply, SemIInv, Types
  <2>2. Cardinality(LetThrough') = Cardinality(LetThrough) - 1
    BY <2>1, Counted, FS_RemoveElement
  <2>3. Counts'
    <3>1. Counts /\ value \in Int /\ posts \in Int /\ Initial \in Int
      BY SemAssumption DEF SemIInv, Types, SemAssumption
    <3>2. ~Pending("UNBLOCK") /\ ~Pending("UNBLOCK")' /\ posts' = posts
      BY <1>1, NothingSent
    <3> QED
      BY ONLY <1>5, <2>2, <3>1, <3>2, Counted DEF Counts
  <2>4. Spoken'
    BY <1>1, <1>4, <1>5, NothingSent DEF SemIInv, Spoken, Types
  <2> QED
    BY <1>1, <1>2, <1>3, <2>3, <2>4, NothingSent DEF SemIInv
<1>6. CASE pc[t] = "broken" /\ value' = value
  <2>1. LetThrough' = LetThrough
    BY <1>1, <1>6 DEF LetThrough, Reply, SemIInv, Types
  <2>2. Counts'
    BY <1>1, <1>6, <2>1, NothingSent DEF SemIInv, Counts
  <2>3. Spoken'
    BY <1>1, <1>4, <1>6, <2>1, NothingSent DEF SemIInv, Spoken, Types
  <2> QED
    BY <1>1, <1>2, <1>3, <2>2, <2>3, NothingSent DEF SemIInv
<1> QED
  BY <1>1, <1>5, <1>6

\* A post.  When it lifts the count to 1 the proxy is asked for one wake-up.
LEMMA PostBeginIInv == ASSUME SemIInv, NEW t \in Threads, PostBegin(t) PROVE SemIInv'
<1> USE SemAssumption DEF SemAssumption
<1>1. /\ port = <<>> /\ pc[t] = "idle" /\ value' = value + 1 /\ posts' = posts + 1 /\ posts < MaxPosts
      /\ UNCHANGED <<live, succ, pred, signal, breaks, overwritten>> /\ live
      /\ missed' = (\/ missed
                    \/ \E u \in Threads : pc[u] = "blocking"
                    \/ value' > 1 /\ Held # {})
  BY DEF PostBegin, Goto, linkVars
<1>2. value \in Int
  BY DEF SemIInv, Types
<1>3. CASE value' = 1
  <2>1. /\ pc' = [pc EXCEPT ![t] = "posting"] /\ mutex' = t
        /\ port' = <<Msg("UNBLOCK", t)>>
    BY <1>1, <1>3 DEF PostBegin, Goto
  <2>2. port' # <<>> /\ Len(port') = 1 /\ port'[1] = [type |-> "UNBLOCK", from |-> t]
    BY <2>1 DEF Msg
  <2>3. Pending("UNBLOCK")' /\ ~Pending("BLOCK")' /\ ~Pending("DESTROY")'
    BY <2>2 DEF Pending
  <2>4. LetThrough' = LetThrough
    BY <1>1, <2>1 DEF LetThrough, Reply, SemIInv, Types
  <2>5. Types'
    <3>1. port' \in Seq([type : MsgType, from : Threads])
      BY <2>1 DEF Msg, MsgType
    <3> QED
      BY <1>1, <1>3, <2>1, <3>1 DEF SemIInv, Types, PC
  <2>6. Message' /\ Answers'
    <3>1. ~Reply(t)
      BY <1>1 DEF SemIInv, Answers
    <3> QED
      BY <1>1, <1>2, <2>1, <2>2, <2>3, <3>1 DEF SemIInv, Types, Message, Answers, Reply
  <2>9. Held' = Held
    <3>1. \A u \in Threads : /\ Msg("UNBLOCK", t) # Msg("BLOCK", u)
                             /\ pc'[u] = "asleep" /\ ~(Reply(u))' <=> pc[u] = "asleep" /\ ~Reply(u)
      BY <1>1, <2>1 DEF Msg, SemIInv, Types, Reply
    <3>2. /\ Held' = {u \in Threads : pc'[u] = "asleep" /\ ~(Reply(u))' /\ Msg("UNBLOCK", t) # Msg("BLOCK", u)}
          /\ Held = {u \in Threads : pc[u] = "asleep" /\ ~Reply(u)}
      BY <1>1, <2>1, PortOne, PortEmpty
    <3> QED
      BY <3>1, <3>2
  <2>10. Listed'
    BY <1>1, <2>9, LinksKept DEF Over
  <2>7. Counts'
    <3>1. Counts /\ value \in Int /\ posts \in Int /\ Initial \in Int
      BY DEF SemIInv, Types
    <3>2. value' = 1 /\ value' = value + 1 /\ posts' = posts + 1
      BY <1>1, <1>3
    <3> QED
      BY ONLY <3>1, <3>2, <2>3, <2>4, Counted DEF Counts
  <2>8. Spoken'
    BY <1>1, <1>3, <2>1, <2>3 DEF SemIInv, Spoken, Types
  <2> QED
    BY <2>5, <2>6, <2>7, <2>8, <2>10 DEF SemIInv
<1>4. CASE value' # 1
  <2>1. port' = port /\ mutex' = mutex /\ pc' = pc
    BY <1>1, <1>4 DEF PostBegin, Goto, SemIInv, Types
  <2>2. LetThrough' = LetThrough
    BY <1>1, <2>1 DEF LetThrough, Reply
  <2>3. Types' /\ Answers' /\ Held' = Held
    BY <1>1, <2>1 DEF SemIInv, Types, Answers, Held, Reply
  <2>4. Listed'
    BY <1>1, <2>1, <2>3, NothingListed
  <2>5. Counts'
    BY <1>1, <2>1, <2>2, NothingSent, Counted DEF SemIInv, Counts, Types
  <2>6. Spoken'
    BY <1>1, <1>2, <1>4, <2>1, <2>3, NothingSent DEF SemIInv, Spoken, Types
  <2> QED
    BY <1>1, <2>1, <2>3, <2>4, <2>5, <2>6, NothingSent DEF SemIInv
<1> QED
  BY <1>3, <1>4

\* uae_sem_destroy sends DESTROY; from here on the semaphore is not live.
LEMMA DestroyBeginIInv == ASSUME SemIInv, NEW t \in Threads, DestroyBegin(t) PROVE SemIInv'
<1>1. /\ port = <<>> /\ pc[t] = "idle" /\ pc' = [pc EXCEPT ![t] = "destroying"]
      /\ ~live' /\ live' = FALSE /\ mutex' = t /\ port' = <<Msg("DESTROY", t)>>
      /\ UNCHANGED <<value, succ, pred, signal, posts, breaks, missed, overwritten>> /\ live
  BY DEF DestroyBegin, Goto, histVars, linkVars
<1>2. ~Reply(t)
  BY <1>1 DEF SemIInv, Answers
<1>3. port' # <<>> /\ Len(port') = 1 /\ port'[1] = [type |-> "DESTROY", from |-> t]
  BY <1>1 DEF Msg
<1>4. Pending("DESTROY")' /\ ~Pending("BLOCK")' /\ ~Pending("UNBLOCK")' /\ ~Pending("UNBLOCK")
  BY <1>1, <1>3 DEF Pending
<1>5. LetThrough' = LetThrough
  BY <1>1 DEF LetThrough, Reply, SemIInv, Types
<1>6. Types'
  <2>1. port' \in Seq([type : MsgType, from : Threads])
    BY <1>1 DEF Msg, MsgType
  <2> QED
    BY <1>1, <2>1 DEF SemIInv, Types, PC
<1>7. Message' /\ Answers'
  BY <1>1, <1>2, <1>3, <1>4 DEF SemIInv, Types, Message, Answers, Reply
<1>10. Held' = Held
  <2>1. \A u \in Threads : /\ Msg("DESTROY", t) # Msg("BLOCK", u)
                           /\ pc'[u] = "asleep" /\ ~(Reply(u))' <=> pc[u] = "asleep" /\ ~Reply(u)
    BY <1>1 DEF Msg, SemIInv, Types, Reply
  <2>2. /\ Held' = {u \in Threads : pc'[u] = "asleep" /\ ~(Reply(u))' /\ Msg("DESTROY", t) # Msg("BLOCK", u)}
        /\ Held = {u \in Threads : pc[u] = "asleep" /\ ~Reply(u)}
    BY <1>1, PortOne, PortEmpty
  <2> QED
    BY <2>1, <2>2
<1>11. Listed'
  BY <1>1, <1>4, <1>10, LinksKept DEF Over
<1>8. Spoken'
  BY <1>1 DEF Spoken
<1>9. Counts'
  BY <1>1, <1>4, <1>5 DEF SemIInv, Counts
<1> QED
  BY <1>6, <1>7, <1>8, <1>9, <1>11 DEF SemIInv

\* UnblockOne or Destroy goes on.
LEMMA RequestEndIInv == ASSUME SemIInv, NEW t \in Threads, RequestEnd(t) PROVE SemIInv'
<1>1. /\ port = <<>> /\ pc[t] \in {"posting", "destroying"} /\ pc' = [pc EXCEPT ![t] = "idle"]
      /\ signal' = [signal EXCEPT ![t] = {}] /\ mutex' = None
      /\ UNCHANGED <<value, live, succ, pred, port, posts, breaks, missed, overwritten>>
  BY DEF RequestEnd, Goto, Forget, proxyVars, linkVars, histVars
<1>2. LetThrough' = LetThrough
  BY <1>1 DEF LetThrough, Reply, SemIInv, Types
<1>3. Types' /\ Answers'
  BY <1>1 DEF SemIInv, Types, Answers, PC, Reply
<1>9. Held' = Held /\ \A u \in Threads : pc'[u] = "blocking" => pc[u] = "blocking"
  BY <1>1 DEF SemIInv, Types, Held, Reply
<1>4. Listed'
  BY <1>1, <1>9, NothingListed
<1>5. Counts'
  BY <1>1, <1>2, NothingSent DEF SemIInv, Counts
<1>6. Waiters' => Waiters
  BY <1>1, <1>9, NothingSent DEF SemIInv, Types
<1>7. Spoken'
  BY <1>1, <1>2, <1>6, NothingSent DEF SemIInv, Spoken, Types
<1> QED
  BY <1>1, <1>3, <1>4, <1>5, <1>7, NothingSent DEF SemIInv

\* The user presses CTRL-C.
LEMMA UserBreaksIInv == ASSUME SemIInv, NEW t \in Threads, UserBreaks(t) PROVE SemIInv'
<1>1. /\ port = <<>> /\ breaks < MaxBreaks /\ breaks' = breaks + 1
      /\ signal' = [signal EXCEPT ![t] = @ \cup {"SIGBREAKF_CTRL_C"}]
      /\ UNCHANGED <<value, live, mutex, succ, pred, port, pc, posts, missed, overwritten>>
  BY DEF UserBreaks, countVars, proxyVars, linkVars
<1>2. \A u \in Threads : (Reply(u))' <=> Reply(u)
  BY <1>1 DEF Reply, SemIInv, Types
<1>3. LetThrough' = LetThrough
  BY <1>1, <1>2 DEF LetThrough
<1>4. Types' /\ Answers' /\ Held' = Held
  BY <1>1, <1>2, SemAssumption DEF SemIInv, Types, Answers, Held, Signals, SemAssumption
<1>5. Listed'
  BY <1>1, <1>4, NothingListed
<1>6. Counts'
  BY <1>1, <1>3, NothingSent DEF SemIInv, Counts
<1>7. Spoken'
  BY <1>1, <1>3, <1>4, NothingSent DEF SemIInv, Spoken, Types
<1> QED
  BY <1>1, <1>4, <1>5, <1>6, <1>7, NothingSent DEF SemIInv

-----------------------------------------------------------------------------
\* The proxy reads the one message there is, and knows its sender.
LEMMA Handling ==
  ASSUME SemIInv, NEW type \in MsgType, Handle(type)
  PROVE  /\ port' = <<>> /\ port # <<>> /\ Head(port) = port[1] /\ Pending(type)
         /\ port[1].from \in Threads /\ Message' /\ \A any : ~Pending(any)'
         /\ ~Reply(port[1].from)
         /\ \A other \in MsgType : other # type => ~Pending(other)
         /\ LET asked == IF type = "BLOCK" THEN {port[1].from} ELSE {}
            IN  /\ Held = {t \in Threads : pc[t] = "asleep" /\ ~Reply(t)} \ asked
                /\ Coming = {t \in Threads : pc[t] = "blocking"} \cup asked
<1>1. port # <<>> /\ Head(port).type = type /\ port' = Tail(port)
  BY DEF Handle
<1>2. port \in Seq([type : MsgType, from : Threads]) /\ Len(port) <= 1
  BY DEF SemIInv, Types, Message
<1>3. /\ Head(port) = port[1] /\ Head(port) \in [type : MsgType, from : Threads]
      /\ port' \in Seq([type : MsgType, from : Threads]) /\ Len(port') = Len(port) - 1
  BY <1>1, <1>2, WithoutFirst
<1>4. port' = <<>>
  BY <1>2, <1>3
<1>5. Message' /\ \A any : ~Pending(any)'
  BY <1>4 DEF Message, Pending
<1>6. ~Reply(port[1].from)
  BY <1>1 DEF SemIInv, Message
<1>7. Pending(type) /\ \A other \in MsgType : other # type => ~Pending(other)
  BY <1>1, <1>3 DEF Pending
<1>8. port = <<port[1]>>
  <2>1. Len(port) \in Nat /\ Len(port) # 0 /\ port[1] \in [type : MsgType, from : Threads]
    BY <1>1, <1>2, NotEmpty, Zenon
  <2>2. Len(port) = 1
    BY <1>2, <2>1, JustOne, Zenon
  <2> QED
    BY <1>2, <2>1, <2>2
<1>9. \A u \in Threads : port[1] = Msg("BLOCK", u) <=> type = "BLOCK" /\ u = port[1].from
  BY <1>1, <1>3 DEF Msg
<1>10. /\ Held = {u \in Threads : pc[u] = "asleep" /\ ~Reply(u) /\ port[1] # Msg("BLOCK", u)}
       /\ Coming = {u \in Threads : pc[u] = "blocking" \/ port[1] = Msg("BLOCK", u)}
  BY <1>8, PortOne
<1>11. port[1].from \in Threads
  BY <1>3
<1>12. LET asked == IF type = "BLOCK" THEN {port[1].from} ELSE {}
       IN  /\ Held = {t \in Threads : pc[t] = "asleep" /\ ~Reply(t)} \ asked
           /\ Coming = {t \in Threads : pc[t] = "blocking"} \cup asked
  <2>1. CASE type = "BLOCK"
    BY <1>9, <1>10, <1>11, <2>1
  <2>2. CASE type # "BLOCK"
    BY <1>9, <1>10, <2>2
  <2> QED
    BY <2>1, <2>2
<1> QED
  BY <1>1, <1>3, <1>4, <1>5, <1>6, <1>7, <1>11, <1>12

\* A sleeper is put on the list.
LEMMA HandleBlockIInv == SemIInv /\ HandleBlock => SemIInv'
<1> SUFFICES ASSUME SemIInv, HandleBlock PROVE SemIInv'
  OBVIOUS
<1>a. PICK t : t = port[1].from
  OBVIOUS
<1>0. Handle("BLOCK") /\ "BLOCK" \in MsgType /\ "DESTROY" \in MsgType /\ "UNBLOCK" \in MsgType
  BY DEF HandleBlock, MsgType
<1>1. /\ port' = <<>> /\ t \in Threads /\ Message' /\ (\A any : ~Pending(any)') /\ Pending("BLOCK")
      /\ ~Reply(t) /\ ~Pending("UNBLOCK") /\ ~Pending("DESTROY") /\ AddTail(t)
      /\ Held = {u \in Threads : pc[u] = "asleep" /\ ~Reply(u)} \ {t}
      /\ Coming = {u \in Threads : pc[u] = "blocking"} \cup {t}
      /\ UNCHANGED <<value, live, mutex, signal, pc, posts, breaks, missed, overwritten>>
  BY <1>0, <1>a, Handling DEF HandleBlock, countVars, histVars
<1>2. pc[t] = "asleep" /\ Types
  BY <1>a, <1>1 DEF SemIInv, Message
<1>3. LetThrough' = LetThrough
  BY <1>1 DEF LetThrough, Reply
<1>4. Held' = Held \cup {t} /\ Coming' = Coming \ {t} /\ t \notin Held /\ t \in Coming
  BY <1>1, <1>2, PortEmpty DEF Reply
<1>5. Types' /\ Answers'
  <2>1. succ' \in [Nodes -> Nodes] /\ pred' \in [Nodes -> Nodes]
    BY <1>1, <1>2 DEF AddTail, Types, Nodes
  <2> QED
    BY <1>1, <2>1 DEF SemIInv, Types, Answers, Reply
<1>6. Listed'
  <2>1. CASE live
    <3>1. Whole /\ overwritten = {}
      BY <2>1 DEF SemIInv, Listed, Over
    <3>2. PICK q \in Seq(Threads) : IsInjective(q) /\ IsList(q) /\ Range(q) = Held
      BY <3>1 DEF Whole
    <3>3. IsList(Append(q, t))'
      BY <1>1, <1>2, <1>4, <3>2, Added
    <3>4. /\ Append(q, t) \in Seq(Threads) /\ IsInjective(Append(q, t))
          /\ Range(Append(q, t)) = Held'
      BY <1>1, <1>4, <3>2, AppendedSleeper
    <3>5. Whole'
      BY <3>3, <3>4 DEF Whole
    <3> QED
      BY <1>1, <2>1, <3>1, <3>5 DEF Listed, Over
  <2>2. CASE ~live
    <3>1. Links
      BY <1>1, <2>2 DEF SemIInv, Listed, Over
    <3>2. Links'
      BY <1>1, <1>2, <1>4, <3>1, AddLinks
    <3> QED
      BY <1>1, <2>2, <3>2 DEF Listed, Over
  <2> QED
    BY <1>2, <2>1, <2>2 DEF Types
<1>7. Counts'
  BY <1>1, <1>3 DEF SemIInv, Counts
<1>8. Waiters
  BY <1>1 DEF Waiters
<1>9. Spoken'
  BY <1>1, <1>3, <1>8 DEF SemIInv, Spoken
<1> QED
  BY <1>1, <1>5, <1>6, <1>7, <1>9 DEF SemIInv

\* A post wakes the first sleeper, if there is one.
LEMMA HandleUnblockIInv == SemIInv /\ HandleUnblock => SemIInv'
<1> SUFFICES ASSUME SemIInv, HandleUnblock PROVE SemIInv'
  OBVIOUS
<1> DEFINE t == port[1].from
<1>0. Handle("UNBLOCK") /\ "UNBLOCK" \in MsgType /\ "DESTROY" \in MsgType
  BY DEF HandleUnblock, MsgType
<1>1. /\ port' = <<>> /\ t \in Threads /\ Message' /\ (\A any : ~Pending(any)') /\ Pending("UNBLOCK")
      /\ ~Reply(t) /\ Head(port).from = t
      /\ Held = {u \in Threads : pc[u] = "asleep" /\ ~Reply(u)}
      /\ UNCHANGED <<value, live, mutex, pc, posts, breaks, missed, overwritten>>
  BY <1>0, Handling DEF HandleUnblock, countVars, histVars
<1>2. pc[t] = "posting" /\ value = 1 /\ live /\ Types /\ Answers
  BY <1>1 DEF SemIInv, Message, Counts
<1> HIDE DEF t
<1>3. Whole /\ overwritten = {}
  BY <1>2 DEF SemIInv, Listed, Over
<1>4. PICK q \in Seq(Threads) : IsInjective(q) /\ IsList(q) /\ Range(q) = Held
  BY <1>3 DEF Whole
<1>5. succ[None] = At(q, 1) /\ Len(q) \in Nat
  <2>1. 0 \in 0 .. Len(q) /\ 0 + 1 = 1 /\ At(q, 0) = None /\ Len(q) \in Nat
    BY DEF At
  <2> QED
    BY <1>4, <2>1 DEF IsList
<1>6. CASE succ[None] = None /\ do_proxy_reply({t}) /\ UNCHANGED linkVars
  <2>1. succ' = succ /\ pred' = pred
    BY <1>6 DEF linkVars
  <2>2. /\ signal' \in [Threads -> SUBSET Signals]
        /\ \A u \in Threads : (Reply(u))' <=> Reply(u) \/ u = t
    BY <1>2, <1>6 DEF do_proxy_reply, Reply, Signals, Types
  <2>3. LetThrough' = LetThrough
    BY <1>1, <1>2, <2>2 DEF LetThrough
  <2>4. Types' /\ Answers'
    BY <1>1, <1>2, <2>1, <2>2 DEF Types, Answers
  <2>5. Held = {} /\ Held' = Held
    <3>1. Len(q) = 0
      <4>1. ~(1 \in 1 .. Len(q))
        BY <1>4, <1>5, <1>6, SemAssumption DEF At, SemAssumption
      <4> QED
        BY <1>5, <4>1
    <3>2. Held = {}
      BY <1>4, <3>1 DEF Range
    <3>3. Held' = {u \in Threads : pc'[u] = "asleep" /\ ~(Reply(u))'}
      BY <1>1, PortEmpty
    <3> QED
      BY <1>1, <2>2, <3>2, <3>3
  <2>6. Listed'
    <3>1. IsList(q)'
      BY <1>4, <2>1 DEF IsList
    <3> QED
      BY <1>1, <1>2, <1>3, <1>4, <2>5, <3>1 DEF Listed, Over, Whole
  <2>7. Counts'
    BY <1>1, <2>3, Counted DEF SemIInv, Counts, Types
  <2>8. live /\ ~missed => ~Waiters'
    BY <1>1, <2>5 DEF SemIInv, Spoken, Waiters
  <2>9. Spoken'
    BY <1>1, <2>8 DEF Spoken
  <2> QED
    BY <1>1, <2>4, <2>6, <2>7, <2>9 DEF SemIInv
<1>7. ASSUME NEW h \in Threads, RemHead(h), do_proxy_reply({t, h})
      PROVE  SemIInv'
  <2>1. h = q[1] /\ 1 \in 1 .. Len(q) /\ h # None /\ h \in Held
    <3>1. h = At(q, 1) /\ h # None
      BY <1>5, <1>7, SemAssumption DEF RemHead, SemAssumption
    <3>2. 1 \in 1 .. Len(q) /\ h = q[1]
      BY <3>1 DEF At
    <3> QED
      BY <1>4, <3>1, <3>2 DEF Range
  <2>2. pc[h] = "asleep" /\ h # t /\ ~Reply(h)
    BY <1>1, <1>2, <2>1
  <2>3. /\ signal' \in [Threads -> SUBSET Signals]
        /\ \A u \in Threads : (Reply(u))' <=> Reply(u) \/ u \in {t, h}
    BY <1>2, <1>7 DEF do_proxy_reply, Reply, Signals, Types
  <2>4. Held' = Held \ {h}
    <3>1. Held' = {u \in Threads : pc'[u] = "asleep" /\ ~(Reply(u))'}
      BY <1>1, PortEmpty
    <3> QED
      BY <1>1, <1>2, <2>3, <3>1
  <2>5. LetThrough' = LetThrough \cup {h} /\ h \notin LetThrough /\ t \notin LetThrough'
    BY <1>1, <1>2, <2>2, <2>3 DEF LetThrough
  <2>6. Cardinality(LetThrough') = Cardinality(LetThrough) + 1
    BY <2>5, Counted, FS_AddElement
  <2>7. Cardinality(LetThrough') < Cardinality(Threads)
    <3>1. LetThrough' \subseteq Threads
      BY DEF LetThrough
    <3>2. LetThrough' \subseteq Threads \ {t}
      BY <2>5, <3>1
    <3>3. /\ IsFiniteSet(Threads \ {t})
          /\ Cardinality(Threads \ {t}) = Cardinality(Threads) - 1
      BY <1>1, SemAssumption, FS_RemoveElement DEF SemAssumption
    <3>4. Cardinality(LetThrough') <= Cardinality(Threads \ {t})
      BY <3>2, <3>3, FS_Subset
    <3> QED
      BY <3>3, <3>4, Counted
  <2>8. Types' /\ Answers'
    <3>1. succ' \in [Nodes -> Nodes] /\ pred' \in [Nodes -> Nodes]
      BY <1>2, <1>7 DEF RemHead, Types, Nodes
    <3> QED
      BY <1>1, <1>2, <2>2, <2>3, <3>1 DEF Types, Answers
  <2>9. Listed'
    <3>1. pred[h] = None
      <4>1. 0 \in 0 .. Len(q) /\ At(q, 0) = None /\ At(q, 0 + 1) = h
        BY <1>5, <2>1 DEF At
      <4> QED
        BY <1>4, <4>1 DEF IsList
    <3>2. \A m \in Nodes : m # h => /\ succ'[m] = IF m = pred[h] THEN succ[h] ELSE succ[m]
                                    /\ pred'[m] = IF m = succ[h] THEN pred[h] ELSE pred[m]
      BY <1>2, <1>7, <3>1 DEF RemHead, Types, Nodes
    <3>3. Whole'
      BY <1>2, <1>3, <2>1, <2>4, <3>2, UnlinkWhole
    <3> QED
      BY <1>1, <1>2, <1>3, <3>3 DEF Listed, Over
  <2>10. Counts'
    BY <1>1, <1>2, <2>6, <2>7, Counted DEF SemIInv, Counts, Types
  <2>11. Spoken'
    BY <1>1, <1>2, <2>5 DEF Spoken
  <2> QED
    BY <1>1, <2>8, <2>9, <2>10, <2>11 DEF SemIInv
<1> QED
  BY <1>1, <1>6, <1>7 DEF HandleUnblock

\* The semaphore is destroyed: its sleepers are taken off and broken.
LEMMA HandleDestroyIInv == SemIInv /\ HandleDestroy => SemIInv'
<1> SUFFICES ASSUME SemIInv, HandleDestroy PROVE SemIInv'
  OBVIOUS
<1> DEFINE t == port[1].from
<1>0. Handle("DESTROY") /\ "UNBLOCK" \in MsgType /\ "DESTROY" \in MsgType
  BY DEF HandleDestroy, MsgType
<1>1. /\ port' = <<>> /\ t \in Threads /\ Message' /\ (\A any : ~Pending(any)') /\ Pending("DESTROY")
      /\ ~Reply(t) /\ Head(port).from = t /\ ~Pending("UNBLOCK")
      /\ Held = {u \in Threads : pc[u] = "asleep" /\ ~Reply(u)}
      /\ UNCHANGED <<value, live, mutex, pc, posts, breaks, missed, overwritten>>
  BY <1>0, Handling DEF HandleDestroy, countVars, histVars
<1>2. pc[t] = "destroying" /\ ~live /\ Types /\ Answers
  BY <1>1 DEF SemIInv, Message
<1>3. PICK q \in Orders :
          /\ IsList(q)
          /\ succ' = [succ EXCEPT ![None] = None]
          /\ pred' = [n \in Nodes |-> IF n \in Range(q) \cup {None} THEN None ELSE pred[n]]
          /\ signal' = [u \in Threads |->
                IF u = Head(port).from THEN signal[u] \cup {"PROXY_MSG_REPLY_SIG"}
                ELSE IF u \in Range(q) THEN signal[u] \cup {"SIGBREAKF_CTRL_C"}
                ELSE signal[u]]
  BY DEF HandleDestroy
<1> HIDE DEF t
<1>4. q \in Seq(Threads) /\ IsInjective(q) /\ Range(q) \subseteq Threads
  <2>1. PICK n \in 0 .. Cardinality(Threads) : q \in [1 .. n -> Threads]
    BY <1>3 DEF Orders
  <2>2. n \in Nat
    BY Counted
  <2> QED
    BY <1>3, <2>1, <2>2 DEF Orders, Range
<1>5. Range(q) = Held
  <2>1. Whole
    BY <1>1 DEF SemIInv, Listed, Over
  <2>2. PICK w \in Seq(Threads) : IsInjective(w) /\ IsList(w) /\ Range(w) = Held
    BY <2>1 DEF Whole
  <2>3. \A n \in Held \cup {None} : succ[n] \in Held \cup {None}
    BY <2>2, WholeNames
  <2>4. Range(q) \subseteq Held \cup {None}
    BY <1>3, <1>4, <2>3, Reached
  <2>5. \A n \in Range(q) \cup {None} : succ[n] \in Range(q) \cup {None}
    <3> SUFFICES ASSUME NEW n \in Range(q) \cup {None} PROVE succ[n] \in Range(q) \cup {None}
      OBVIOUS
    <3>1. Len(q) \in Nat /\ DOMAIN q = 1 .. Len(q)
      BY <1>4
    <3>2. PICK i \in 0 .. Len(q) : At(q, i) = n
      <4>1. CASE n = None
        <5>1. 0 \in 0 .. Len(q) /\ At(q, 0) = None
          BY <3>1 DEF At
        <5> QED
          BY <4>1, <5>1
      <4>2. CASE n \in Range(q)
        <5>1. PICK k \in 1 .. Len(q) : q[k] = n
          BY <3>1, <4>2 DEF Range
        <5>2. k \in 0 .. Len(q) /\ At(q, k) = n
          BY <5>1, <3>1 DEF At
        <5> QED
          BY <5>2
      <4> QED
        BY <4>1, <4>2
    <3>3. i + 1 \in 0 .. Len(q) + 1 /\ succ[n] = At(q, i + 1)
      BY <1>3, <3>1, <3>2 DEF IsList
    <3> QED
      BY <1>4, <3>3, Apart
  <2>6. Range(w) \subseteq Range(q) \cup {None}
    BY <2>2, <2>5, Reached
  <2>7. None \notin Held /\ None \notin Range(q)
    BY <1>4, SemAssumption DEF SemAssumption, Held
  <2> QED
    BY <2>2, <2>4, <2>6, <2>7
<1>6. /\ signal' \in [Threads -> SUBSET Signals]
      /\ \A u \in Threads : (Reply(u))' <=> Reply(u) \/ u = t
  BY <1>1, <1>2, <1>3 DEF Reply, Signals, Types
<1>7. LetThrough' = LetThrough
  BY <1>1, <1>2, <1>6 DEF LetThrough
<1>8. Types' /\ Answers'
  <2>1. succ' \in [Nodes -> Nodes] /\ pred' \in [Nodes -> Nodes]
    BY <1>2, <1>3 DEF Types, Nodes
  <2> QED
    BY <1>1, <1>2, <1>6, <2>1 DEF Types, Answers
<1>9. Listed'
  <2>1. Held' = Held /\ Coming' = {u \in Threads : pc[u] = "blocking"} /\ Held \subseteq Threads
    <3>1. Held' = {u \in Threads : pc'[u] = "asleep" /\ ~(Reply(u))'}
          /\ Coming' = {u \in Threads : pc'[u] = "blocking"}
      BY <1>1, PortEmpty
    <3> QED
      BY <1>1, <1>2, <1>6, <3>1
  <2>2. /\ \A n \in Held \cup {None} : pred'[n] = None
        /\ succ'[None] = None /\ \A n \in Held : succ'[n] = succ[n]
    BY <1>2, <1>3, <1>5, <2>1, SemAssumption DEF Types, Nodes, SemAssumption
  <2>3. \A n \in Held : succ[n] \in Held \cup {None}
    BY <1>3, <1>4, <1>5, WholeNames
  <2>4. \A n \in Held : succ[n] # n
    <3> SUFFICES ASSUME NEW n \in Held PROVE succ[n] # n
      OBVIOUS
    <3>1. PICK i \in 1 .. Len(q) : q[i] = n
      BY <1>4, <1>5 DEF Range
    <3>2. i \in 0 .. Len(q) /\ i \in 1 .. Len(q) + 1 /\ i + 1 \in 1 .. Len(q) + 1 /\ i # i + 1 /\ At(q, i) = n
      BY <1>4, <3>1 DEF At
    <3>3. succ[n] = At(q, i + 1)
      BY <1>3, <3>2 DEF IsList
    <3> QED
      BY <1>4, <3>2, <3>3, Apart
  <2>5. \A n \in Held \cup {None} : n \notin Coming'
    BY <1>1, <2>1, SemAssumption DEF SemAssumption
  <2>6. Back' /\ Agree' /\ Forth' /\ Named'
    BY <2>1, <2>2 DEF Back, Agree, Forth, Named
  <2>7. Stale'
    BY <2>1, <2>2, <2>3, <2>4, <2>5 DEF Stale
  <2> QED
    BY <1>1, <1>2, <2>6, <2>7 DEF Listed, Links, Over
<1>10. Spoken'
  BY <1>1, <1>2 DEF Spoken
<1>11. Counts'
  BY <1>1, <1>7 DEF SemIInv, Counts
<1> QED
  BY <1>1, <1>8, <1>9, <1>10, <1>11 DEF SemIInv

\* Every step.
LEMMA SemNextIInv == SemIInv /\ [SemNext]_amigaVars => SemIInv'
<1> SUFFICES ASSUME SemIInv, [SemNext]_amigaVars PROVE SemIInv'
  OBVIOUS
<1>1. CASE UNCHANGED amigaVars
  <2>0. /\ UNCHANGED <<value, live, mutex, succ, pred, port, signal, pc, posts, breaks, missed, overwritten>>
    BY <1>1 DEF amigaVars, countVars, proxyVars, linkVars, histVars
  <2>1. LetThrough' = LetThrough /\ Held' = Held /\ Coming' = Coming
    BY <2>0 DEF LetThrough, Held, Coming, Reply
  <2>2. Types' /\ Message' /\ Answers'
    BY <2>0 DEF SemIInv, Types, Message, Answers, Pending, Reply
  <2>3. Listed'
    BY <2>0, <2>1, LinksKept DEF Over, Pending
  <2>4. Counts' /\ Spoken'
    BY <2>0, <2>1 DEF SemIInv, Counts, Spoken, Pending, Waiters
  <2> QED
    BY <2>2, <2>3, <2>4 DEF SemIInv
<1>2. CASE Proxy
  BY <1>2, HandleBlockIInv, HandleUnblockIInv, HandleDestroyIInv DEF Proxy
<1>3. ASSUME NEW t \in Threads, Step(t)
      PROVE  SemIInv'
  BY <1>3, TakeIInv, WaitBeginIInv, BlockMeIInv, WaitAnsweredIInv, WaitEndIInv, PostBeginIInv,
     DestroyBeginIInv, RequestEndIInv, UserBreaksIInv DEF Step
<1> QED
  BY <1>1, <1>2, <1>3 DEF SemNext

\* The invariant holds in every state.
LEMMA InvariantHolds == SemSpec => []SemIInv
BY SemInitIInv, SemNextIInv, PTL DEF SemSpec

-----------------------------------------------------------------------------
\* Until DESTROY is handled the proxy's list is whole, and is the tasks whose BLOCK
\* it has read and not answered; no stack that was left is written to.  Afterwards
\* only lh_Head may name a stack that was left.  Whatever the port refers to is on
\* the stack of one task that waits for it.  The count stays above minus the tasks.
THEOREM MessagesAreSafe == SemSpec => []NoDanglingMessage
<1>1. SemIInv => SemTypeOK
  <2> SUFFICES ASSUME SemIInv PROVE SemTypeOK
    OBVIOUS
  <2>1. value \in (1 - Cardinality(Threads)) .. (Initial + MaxPosts)
    BY Counted, SemAssumption DEF SemIInv, Types, Counts, SemAssumption
  <2> QED
    BY <2>1 DEF SemIInv, Types, SemTypeOK
<1>2. ASSUME SemIInv, NEW i \in DOMAIN port
      PROVE  /\ pc[port[i].from] \in {"asleep", "posting", "destroying"} /\ ~Reply(port[i].from)
             /\ \A j \in DOMAIN port : port[j].from = port[i].from => j = i
  <2>1. /\ port \in Seq([type : MsgType, from : Threads]) /\ Len(port) <= 1
        /\ DOMAIN port = 1 .. Len(port) /\ Len(port) \in Nat
    BY <1>2 DEF SemIInv, Types, Message
  <2>2. port # <<>> /\ i = 1 /\ \A j \in DOMAIN port : j = i
    BY <2>1
  <2>3. port[1].type \in MsgType
    <3>1. port[1] \in [type : MsgType, from : Threads]
      BY <2>1, <2>2, NotEmpty, Zenon
    <3> QED
      BY <3>1
  <2> QED
    BY <1>2, <2>2, <2>3 DEF SemIInv, Message, Pending, MsgType
<1>3. ASSUME SemIInv
      PROVE  /\ live => overwritten = {} /\ \E q \in Orders : IsList(q) /\ Range(q) = Held
             /\ \A n \in Held \cup {None} : pred[n] \in Held \cup {None}
             /\ succ[None] \in Held \cup {None} \cup overwritten
  <2>1. CASE Over
    BY <1>3, <2>1 DEF SemIInv, Listed, Links, Back, Named, Over
  <2>2. CASE ~Over
    <3>1. Whole /\ overwritten = {}
      BY <1>3, <2>2 DEF SemIInv, Listed
    <3>2. PICK q \in Seq(Threads) : IsInjective(q) /\ IsList(q) /\ Range(q) = Held
      BY <3>1 DEF Whole
    <3>3. q \in Orders
      BY <3>2, Ordered
    <3> QED
      BY <3>1, <3>2, <3>3, WholeNames
  <2> QED
    BY <2>1, <2>2
<1>4. SemIInv => NoDanglingMessage
  BY <1>1, <1>2, <1>3 DEF NoDanglingMessage
<1> QED
  BY <1>4, InvariantHolds, PTL

\* No more tasks are let through than there were posts, and nobody sleeps on a
\* semaphore that could be taken unless a post was missed.
THEOREM WakesAgree == SemSpec => []WakesMatchPosts
<1>1. SemIInv => WakesMatchPosts
  <2> SUFFICES ASSUME SemIInv PROVE WakesMatchPosts
    OBVIOUS
  <2>1. Cardinality(LetThrough) <= posts
    BY Counted DEF SemIInv, Counts, Types
  <2>2. ASSUME Quiet, live, Held # {}, ~missed
        PROVE  value <= 0
    <3>1. LetThrough = {} /\ ~Pending("UNBLOCK") /\ Waiters
      BY <2>2 DEF Quiet, LetThrough, Answered, Reply, Pending, Waiters
    <3> QED
      BY <2>2, <3>1 DEF SemIInv, Spoken
  <2> QED
    BY <2>1, <2>2 DEF WakesMatchPosts, NobodySleepsOnAvailable
<1> QED
  BY <1>1, InvariantHolds, PTL
=============================================================================
