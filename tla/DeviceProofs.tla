---------------------------- MODULE DeviceProofs ----------------------------
(***************************************************************************)
(* Two devices the Amiga's programs see: the keyboard and a unit of        *)
(* uaescsi.device.                                                         *)
(*                                                                         *)
(* For every size of the ring, every patience of the CIA and any number of *)
(* keys: by one thread or two, the ring holds exactly the keys that wait,  *)
(* and no key is run over before the CIA's patience is at an end.  KeysKept*)
(* speaks of the moments between two calls of get_next_key.  The invariant *)
(* speaks of every moment: it counts from Base, the slot that the running  *)
(* call will leave kpb_last at.  That the ring is never overfilled needs   *)
(* to know what record_key has seen of the cursor it does not own: it may  *)
(* have moved since, but only away from it.                                *)
(*                                                                         *)
(* For any number of requests, opens and resets: a unit of the SCSI device *)
(* has one thread, dead when its memory is cleared, that works on an open  *)
(* drive, but for the races Scsi names.  Threads are started in turn, and  *)
(* only the newest can serve: what waits in dev_open and dev_exit waits    *)
(* for that one.  That its semaphores stay small needs their posts to be   *)
(* counted, those still to come among them.                                *)
(***************************************************************************)
EXTENDS Keyboard, Scsi, FiniteSetTheorems, TLAPS, WellFoundedInduction

-----------------------------------------------------------------------------
(* The keyboard.                                                           *)

Base == CASE rpc = "idle" -> kpb_last
          [] rpc = "advance" -> After(kpb_last)
          [] rpc = "wrap" -> 0

\* How far along the ring b is from a.
Dist(a, b) == IF b >= a THEN b - a ELSE b - a + Size

Before(k) == {i \in Waiting : i < k}

\* kpb_last is no slot between the two stores of the wrap, and only there.
Cursors ==
    /\ wpc # "idle" => kpb_next = After(kpb_first)
    /\ rpc = "wrap" <=> kpb_last = Size

\* What record_key knows after its test: there is room.  What get_next_key
\* knows: the key it has loaded is still in the ring.
Room == ~raced =>
    /\ wpc # "idle" => kpb_next # Base /\ (rpc = "advance" => kpb_next # kpb_last)
    /\ rpc = "advance" => kpb_first # kpb_last

\* The last key published, and what is in the slot that is next.
Last == IF wpc = "idle" THEN typed ELSE typed - 1
Numbers ==
    /\ ~raced => fed <= Last
    /\ overrun \subseteq 1 .. Last
    /\ wpc # "idle" => typed \in Keys
    /\ wpc = "publish" => keybuf[kpb_first] = typed

\* The contents of the ring, counted from Base.
Exact == ~raced =>
    /\ Dist(Base, kpb_first) = Cardinality(Waiting)
    /\ \A k \in Waiting : \E s \in Slots :
          keybuf[s] = k /\ Dist(Base, s) = Cardinality(Before(k))

\* A key is in the register for as long as sleepyhead says, until it was read
\* or its time is over.
Patient ==
    /\ ciaasdr_unread = 1 => age = sleepyhead
    /\ ciaasdr # 0 /\ ciaasdr \notin got =>
          ciaasdr_unread = 1 \/ (ciaasdr_unread = 0 /\ age = Patience)

IInv == TypeOK /\ Cursors /\ Room /\ Numbers /\ Exact /\ Patient

-----------------------------------------------------------------------------
(* Distances in the ring.                                                  *)

\* The next slot is a slot, and no two slots have the same.
LEMMA AfterType ==
  ASSUME NEW a \in Slots, NEW b \in Slots
  PROVE  After(a) \in Slots /\ (After(a) = After(b) => a = b)
BY KeyboardAssumption DEF KeyboardAssumption, Slots, After

\* A distance is less than the size, and zero only to itself.
LEMMA DistType ==
  ASSUME NEW a \in Slots, NEW b \in Slots
  PROVE  Dist(a, b) \in 0 .. Size - 1 /\ (Dist(a, b) = 0 <=> a = b)
BY KeyboardAssumption DEF KeyboardAssumption, Slots, Dist

\* A key more makes the ring one longer ...
LEMMA DistPut ==
  ASSUME NEW a \in Slots, NEW b \in Slots, After(b) # a
  PROVE  Dist(a, After(b)) = Dist(a, b) + 1
BY KeyboardAssumption DEF KeyboardAssumption, Slots, Dist, After

\* ... and one less, one shorter, for every slot but the one left.
LEMMA DistGet ==
  ASSUME NEW a \in Slots, NEW b \in Slots, a # b
  PROVE  Dist(After(a), b) = Dist(a, b) - 1
BY KeyboardAssumption DEF KeyboardAssumption, Slots, Dist, After

\* sleepyhead counts up and begins again.
LEMMA Sleepier ==
  ASSUME NEW s \in 0 .. Patience - 1
  PROVE  (s + 1) % Patience = IF s + 1 = Patience THEN 0 ELSE s + 1
<1>1. Patience \in Nat \ {0}
  BY KeyboardAssumption DEF KeyboardAssumption
<1>2. CASE s + 1 = Patience
  <2>1. (s + 1) % Patience = s + 1 - Patience
    BY <1>1, <1>2
  <2> QED BY <1>1, <1>2, <2>1
<1>3. CASE s + 1 # Patience
  BY <1>1, <1>3
<1> QED BY <1>2, <1>3

\* Base is a slot.
LEMMA BaseType == TypeOK /\ Cursors => Base \in Slots
BY AfterType, KeyboardAssumption DEF KeyboardAssumption, TypeOK, Cursors, Base, Slots

\* The keys that wait are finitely many, and fewer come before one of them.
LEMMA WaitingFinite ==
  ASSUME TypeOK
  PROVE  /\ IsFiniteSet(Waiting) /\ Waiting \subseteq Nat /\ Cardinality(Waiting) \in Nat
         /\ \A k : IsFiniteSet(Before(k)) /\ Cardinality(Before(k)) \in Nat
         /\ \A k \in Waiting : Cardinality(Before(k)) < Cardinality(Waiting)
<1>1. fed + 1 .. Last \subseteq 0 .. MaxKeys + 1 /\ MaxKeys + 1 \in Int /\ 0 \in Int
  BY KeyboardAssumption DEF KeyboardAssumption, TypeOK, Keys, Last
<1>2. IsFiniteSet(0 .. MaxKeys + 1)
  BY <1>1, FS_Interval
<1>3. Waiting \subseteq 0 .. MaxKeys + 1
  BY <1>1 DEF Waiting, Last
<1>4. IsFiniteSet(Waiting) /\ Waiting \subseteq Nat
  <2>1. 0 .. MaxKeys + 1 \subseteq Nat
    BY <1>1
  <2> QED BY <1>2, <1>3, <2>1, FS_Subset
<1>5. \A k : IsFiniteSet(Before(k)) /\ Cardinality(Before(k)) \in Nat
  <2> TAKE k
  <2>1. Before(k) \subseteq Waiting
    BY DEF Before
  <2> QED BY <1>4, <2>1, FS_Subset, FS_CardinalityType
<1>6. \A k \in Waiting : Cardinality(Before(k)) < Cardinality(Waiting)
  <2> TAKE k \in Waiting
  <2>1. Before(k) \subseteq Waiting /\ Before(k) # Waiting
    BY <1>4 DEF Before
  <2> QED BY <1>4, <2>1, FS_Subset, FS_CardinalityType
<1> QED BY <1>4, <1>5, <1>6, FS_CardinalityType

\* If a key waits, one waits longest.
LEMMA OldestExists ==
  ASSUME TypeOK, Waiting # {}
  PROVE  \E m \in Waiting : Before(m) = {}
<1> DEFINE Less == OpToRel(<, Nat)
<1>1. Waiting \subseteq Nat
  BY WaitingFinite
<1>2. PICK m \in Waiting : \A i \in Waiting : ~ (<<i, m>> \in Less)
  BY <1>1, NatLessThanWellFounded, WFMin, Zenon
<1>3. \A i \in Waiting : ~ (i < m)
  BY <1>1, <1>2 DEF OpToRel
<1> QED BY <1>3 DEF Before

-----------------------------------------------------------------------------
(* The steps.                                                              *)

\* A fresh ring is empty.
LEMMA InitIInv == Init => IInv
<1> SUFFICES ASSUME Init PROVE IInv
  OBVIOUS
<1> USE KeyboardAssumption DEF KeyboardAssumption
<1>1. TypeOK
  <2>1. 0 \in Slots /\ 0 \in 0 .. Size /\ 0 \in 0 .. Patience - 1 /\ 0 \in 0 .. Patience
        /\ 0 \in 0 .. MaxKeys /\ 0 \in Keys \cup {0}
    BY DEF Slots, Keys
  <2>2. keybuf \in [Slots -> Keys \cup {0}]
    BY DEF Init
  <2>3. sp_icr \in BOOLEAN /\ sp_out \in BOOLEAN
    BY DEF Init
  <2>4. overrun \subseteq Keys /\ got \subseteq Keys
    BY DEF Init
  <2>5. /\ kbstate \in 0 .. 2 /\ ciaasdr_unread \in 0 .. 2 /\ wpc = "idle" /\ rpc = "idle" /\ hpc = "idle"
        /\ kpb_first = 0 /\ kpb_last = 0 /\ kpb_next = 0 /\ sleepyhead = 0 /\ ciaasdr = 0 /\ typed = 0
        /\ fed = 0 /\ age = 0
    BY DEF Init
  <2> QED BY <2>1, <2>2, <2>3, <2>4, <2>5 DEF TypeOK
<1>2. Waiting = {}
  BY DEF Init, Waiting
<1>3. Dist(Base, kpb_first) = 0
  BY DEF Init, Base, Dist
<1>4. Cursors /\ Room /\ Numbers /\ Patient
  BY DEF Init, Cursors, Room, Numbers, Last, Patient
<1>5. Exact
  BY <1>2, <1>3, FS_EmptySet DEF Exact
<1> QED BY <1>1, <1>4, <1>5 DEF IInv

\* A step that leaves ring, cursors and keys alone.
Elsewhere == UNCHANGED <<ringVars, writerVars, rpc, threadVars, typed, overrun, fed>>
\* It keeps what is known of them.
LEMMA ElsewhereKeeps ==
  ASSUME IInv, Elsewhere
  PROVE  Cursors' /\ Room' /\ Numbers' /\ Exact'
<1>1. Base' = Base /\ Waiting' = Waiting /\ \A k : Before(k)' = Before(k)
  BY DEF Elsewhere, ringVars, writerVars, Base, After, Waiting, Before
<1>2. Cursors' /\ Room' /\ Numbers'
  BY <1>1 DEF IInv, Elsewhere, ringVars, writerVars, threadVars, Cursors, Room, Numbers, After, Last
<1>3. Exact'
  BY <1>1 DEF IInv, Elsewhere, ringVars, threadVars, Exact, Dist
<1> QED BY <1>2, <1>3

\* record_key's test: the key is refused, or there is room for it.
LEMMA RecordKeyIInv == ASSUME IInv, record_key PROVE IInv'
<1> USE DEF IInv
<1>1. /\ kpb_first \in Slots /\ typed \in 0 .. MaxKeys /\ typed' = typed + 1 /\ typed' \in Keys
      /\ kpb_next' = After(kpb_first) /\ kpb_next' \in Slots
      /\ UNCHANGED <<ringVars, rpc, ciaVars, hpc, two_threads, fed, got, age>>
      /\ wpc = "idle" /\ wpc' \in {"idle", "store"}
  BY AfterType, KeyboardAssumption
  DEF KeyboardAssumption, record_key, threadVars, TypeOK, Keys
<1>2. \/ wpc' = "idle" /\ overrun' = overrun \cup {typed'}
      \/ wpc' = "store" /\ overrun' = overrun /\ After(kpb_first) # kpb_last
  BY <1>1 DEF record_key, Full
<1>3. TypeOK'
  <2>1. typed' \in 0 .. MaxKeys
    BY <1>1 DEF Keys
  <2>2. overrun' \subseteq Keys
    BY <1>1, <1>2 DEF TypeOK
  <2> QED BY <1>1, <2>1, <2>2 DEF TypeOK, ringVars, ciaVars
<1>4. fed \in Nat /\ (~raced => fed <= typed) /\ overrun \subseteq 1 .. typed /\ typed \in Nat
  BY <1>1 DEF Numbers, Last, TypeOK, Keys
<1>5. ~raced => Waiting' = Waiting
  <2> HAVE ~raced
  <2>1. Waiting = {k \in fed + 1 .. typed : k \notin overrun}
    BY <1>1 DEF Waiting
  <2>2. CASE wpc' = "idle"
    <3>1. Waiting' = {k \in fed + 1 .. typed + 1 : k \notin overrun \cup {typed + 1}}
      BY <1>1, <1>2, <2>2 DEF Waiting
    <3> QED BY <1>4, <2>1, <3>1
  <2>3. CASE wpc' = "store"
    <3>1. Waiting' = {k \in fed + 1 .. typed + 1 - 1 : k \notin overrun}
      BY <1>1, <1>2, <2>3 DEF Waiting
    <3> QED BY <1>4, <2>1, <3>1
  <2> QED BY <1>1, <2>2, <2>3
<1>6. Base' = Base /\ raced' = (raced \/ (rpc = "wrap" /\ kpb_next' = 0))
  BY <1>1 DEF Base, After, ringVars, record_key
<1>12. ~raced' => ~raced
  BY <1>6, Zenon
<1>7. Exact'
  BY <1>1, <1>5, <1>6 DEF Exact, Before, Dist, ringVars
<1>8. Cursors'
  BY <1>1 DEF Cursors, After, ringVars
<1>9. Numbers'
  <2>1. CASE wpc' = "idle"
    <3>1. Last' = typed + 1 /\ fed' = fed /\ overrun' = overrun \cup {typed + 1}
      BY <1>1, <1>2, <2>1 DEF Last
    <3>2. overrun \cup {typed + 1} \subseteq 1 .. typed + 1
      BY <1>4
    <3>3. ~raced' => fed <= typed + 1
      BY <1>4, <1>12
    <3> QED BY <2>1, <3>1, <3>2, <3>3 DEF Numbers
  <2>2. CASE wpc' = "store"
    <3>1. Last' = typed /\ overrun' = overrun /\ fed' = fed
      BY <1>1, <1>2, <1>4, <2>2 DEF Last
    <3>2. ~raced' => fed <= typed
      BY <1>4, <1>12
    <3> QED BY <1>1, <1>4, <2>2, <3>1, <3>2 DEF Numbers
  <2> QED BY <1>1, <2>1, <2>2
<1>10. Room'
  <2>1. SUFFICES ASSUME ~raced' PROVE Room'
    BY DEF Room
  <2>2. rpc = "advance" => kpb_first # kpb_last /\ kpb_last \in Slots
    <3>1. kpb_last \in 0 .. Size /\ Size \in Nat /\ (rpc = "advance" => kpb_last # Size)
      BY KeyboardAssumption DEF KeyboardAssumption, Cursors, TypeOK
    <3>2. ~raced
      BY <1>12, <2>1
    <3>3. rpc = "advance" => kpb_first # kpb_last
      BY <3>2 DEF Room
    <3> QED BY <3>1, <3>3 DEF Slots
  <2>3. ASSUME wpc' = "store" PROVE kpb_next' # Base
    <3>1. rpc = "advance" => After(kpb_first) # After(kpb_last)
      BY <1>1, <2>2, AfterType
    <3> QED BY <1>1, <1>2, <1>6, <2>1, <2>3, <3>1 DEF Base, TypeOK
  <2> QED BY <1>1, <1>2, <1>6, <2>2, <2>3 DEF Room, ringVars
<1>11. Patient'
  BY <1>1 DEF Patient, ciaVars
<1> QED BY <1>3, <1>7, <1>8, <1>9, <1>10, <1>11

\* The key is put into the slot that no key waits in.
LEMMA RecordStoreIInv == ASSUME IInv, RecordStore PROVE IInv'
<1> USE DEF IInv
<1>1. /\ kpb_first \in Slots /\ keybuf \in [Slots -> Keys \cup {0}]
      /\ keybuf' = [keybuf EXCEPT ![kpb_first] = typed] /\ typed \in Keys
      /\ wpc = "store" /\ wpc' = "publish"
      /\ UNCHANGED <<threadVars, kpb_first, kpb_last, kpb_next, rpc, ciaVars, hpc, pastVars>>
  BY DEF RecordStore, TypeOK, Numbers
<1>2. TypeOK'
  BY <1>1 DEF TypeOK, ciaVars, pastVars, Keys, Slots
<1>3. Base' = Base /\ Waiting' = Waiting /\ (\A k : Before(k)' = Before(k)) /\ Last' = Last
  BY <1>1 DEF Base, After, Waiting, Before, pastVars, Last
<1>4. Cursors' /\ Room' /\ Numbers' /\ Patient'
  BY <1>1, <1>3 DEF Cursors, Room, Numbers, After, Last, Patient, ciaVars, pastVars, threadVars
<1>5. Exact'
  <2>1. SUFFICES ASSUME ~raced PROVE Exact'
    BY <1>1 DEF Exact, threadVars
  <2>2. ASSUME NEW k \in Waiting, NEW s \in Slots, Dist(Base, s) = Cardinality(Before(k))
        PROVE  keybuf'[s] = keybuf[s]
    <3>1. Cardinality(Before(k)) # Cardinality(Waiting)
      BY WaitingFinite
    <3>2. s # kpb_first
      BY <2>1, <2>2, <3>1 DEF Exact
    <3> QED BY <1>1, <3>2
  <2>3. Dist(Base, kpb_first) = Cardinality(Waiting)
    BY <2>1 DEF Exact
  <2>4. \A k \in Waiting : \E s \in Slots :
          keybuf'[s] = k /\ Dist(Base, s) = Cardinality(Before(k))
    BY <2>1, <2>2 DEF Exact
  <2> QED BY <1>1, <1>3, <2>3, <2>4 DEF Exact, Dist
<1> QED BY <1>2, <1>4, <1>5

\* The key is made known: one more waits, behind all others.
LEMMA RecordPublishIInv == ASSUME IInv, RecordPublish PROVE IInv'
<1> USE DEF IInv
<1>1. /\ kpb_first \in Slots /\ kpb_next \in Slots /\ typed \in Keys /\ keybuf[kpb_first] = typed
      /\ kpb_first' = kpb_next /\ kpb_next = After(kpb_first)
      /\ wpc = "publish" /\ wpc' = "idle"
      /\ UNCHANGED <<threadVars, keybuf, kpb_last, kpb_next, rpc, ciaVars, hpc, pastVars>>
  BY DEF RecordPublish, TypeOK, Numbers, Cursors
<1>2. TypeOK'
  BY <1>1 DEF TypeOK, ciaVars, pastVars
<1>3. fed \in Nat /\ (~raced => fed <= typed - 1) /\ overrun \subseteq 1 .. typed - 1 /\ typed \in Nat
  BY <1>1 DEF Numbers, Last, TypeOK, Keys
<1>4. /\ Waiting = {k \in fed + 1 .. typed - 1 : k \notin overrun}
      /\ Waiting' = {k \in fed + 1 .. typed : k \notin overrun}
  BY <1>1 DEF Waiting, pastVars
<1>5. ~raced => Waiting' = Waiting \cup {typed} /\ typed \notin Waiting /\ \A k \in Waiting : k < typed
  BY <1>3, <1>4
<1>6. Base' = Base
  BY <1>1 DEF Base, After
<1>7. Cursors' /\ Numbers' /\ Patient'
  <2>1. Last' = typed /\ overrun' = overrun /\ fed' = fed
    BY <1>1 DEF Last, pastVars
  <2>2. Numbers'
    BY <1>1, <1>3, <2>1 DEF Numbers, threadVars
  <2> QED BY <1>1, <2>2 DEF Cursors, Patient, ciaVars, pastVars
<1>8. Room'
  BY <1>1, <1>6 DEF Room, threadVars
<1>9. Exact'
  <2>1. SUFFICES ASSUME ~raced PROVE Exact'
    BY <1>1 DEF Exact, threadVars
  <2>2. Base \in Slots /\ kpb_next # Base
    BY <1>1, <2>1, BaseType DEF Room
  <2>3. Dist(Base, kpb_first) = Cardinality(Waiting) /\ Cardinality(Waiting) \in Nat
    BY <2>1, WaitingFinite DEF Exact
  <2>4. Dist(Base, kpb_first') = Cardinality(Waiting')
    <3>1. Cardinality(Waiting \cup {typed}) = Cardinality(Waiting) + 1
      BY <1>5, <2>1, WaitingFinite, FS_AddElement
    <3>2. Dist(Base, After(kpb_first)) = Dist(Base, kpb_first) + 1
      BY <1>1, <2>2, DistPut
    <3> QED BY <1>1, <1>5, <2>1, <2>3, <3>1, <3>2
  <2>5. ASSUME NEW k \in Waiting
        PROVE  \E s \in Slots : keybuf[s] = k /\ Dist(Base, s) = Cardinality(Before(k)')
    <3>1. Before(k)' = Before(k)
      BY <1>3, <1>4, <1>5, <2>1 DEF Before
    <3> QED BY <2>1, <3>1 DEF Exact
  <2>6. \A k : k = typed => Before(k)' = Waiting
    BY <1>3, <1>4, <1>5, <2>1 DEF Before
  <2>7. \A k \in Waiting' : \E s \in Slots :
          keybuf[s] = k /\ Dist(Base, s) = Cardinality(Before(k)')
    <3> TAKE k \in Waiting'
    <3>1. CASE k \in Waiting
      BY <2>5, <3>1
    <3>2. CASE k = typed
      BY <1>1, <2>1, <2>3, <2>6, <3>2 DEF Exact
    <3> QED BY <1>5, <2>1, <3>1, <3>2
  <2> QED BY <1>1, <1>6, <2>4, <2>7 DEF Exact, Dist
<1> QED BY <1>2, <1>7, <1>8, <1>9

\* The CIA loads a key: it is the oldest, and waits no longer.
LEMMA FeedKeyIInv == ASSUME IInv, FeedKey PROVE IInv'
<1> USE DEF IInv
<1>1. /\ rpc = "idle" /\ rpc' = "advance" /\ kpb_first # kpb_last
      /\ ciaasdr' = keybuf[kpb_last] /\ fed' = keybuf[kpb_last] /\ ciaasdr_unread' = 1
      /\ sp_icr' = TRUE /\ sleepyhead' = 0 /\ age' = 0
      /\ UNCHANGED <<threadVars, ringVars, writerVars, kbstate, sp_out, hpc, typed, overrun, got>>
  BY DEF FeedKey, MayFeed, Between, keys_available
<1>2. kpb_last \in Slots /\ kpb_first \in Slots /\ keybuf \in [Slots -> Keys \cup {0}]
  <2>1. kpb_last \in 0 .. Size /\ kpb_last # Size /\ Size \in Nat
    BY <1>1, KeyboardAssumption DEF KeyboardAssumption, Cursors, TypeOK
  <2> QED BY <2>1 DEF TypeOK, Slots
<1>3. TypeOK'
  <2>1. /\ keybuf[kpb_last] \in Keys \cup {0} /\ 0 \in 0 .. Patience - 1 /\ 0 \in 0 .. Patience
    BY <1>2, KeyboardAssumption DEF KeyboardAssumption
  <2>2. sp_icr' \in BOOLEAN
    BY <1>1
  <2> QED BY <1>1, <2>1, <2>2 DEF TypeOK, ringVars, writerVars
<1>4. Cursors' /\ Patient'
  BY <1>1 DEF Cursors, Patient, After, ringVars, writerVars
<1>5. Room'
  <2>1. SUFFICES ASSUME ~raced PROVE Room'
    BY <1>1 DEF Room, threadVars
  <2>2. wpc # "idle" => kpb_next = After(kpb_first) /\ kpb_next # kpb_last
    BY <1>1, <2>1 DEF Room, Base, Cursors
  <2>3. After(kpb_first) # After(kpb_last)
    BY <1>1, <1>2, AfterType
  <2>4. Base' = After(kpb_last)
    BY <1>1 DEF Base, After, ringVars
  <2> QED BY <1>1, <2>2, <2>3, <2>4 DEF Room, ringVars, writerVars
<1>6. Base = kpb_last /\ Base' = After(kpb_last)
  BY <1>1 DEF Base, After, ringVars
<1>7. Numbers' /\ Exact'
  <2>1. Last \in Int /\ fed \in Nat /\ Last' = Last /\ Waiting = {k \in fed + 1 .. Last : k \notin overrun}
    BY <1>1 DEF TypeOK, Keys, Last, writerVars, Waiting
  <2>2. CASE raced
    BY <1>1, <2>1, <2>2 DEF Numbers, Exact, threadVars, writerVars, ringVars
  <2>3. CASE ~raced
    <3> DEFINE m == keybuf[kpb_last]
    <3>1. /\ Dist(kpb_last, kpb_first) = Cardinality(Waiting)
          /\ \A k \in Waiting : \E s \in Slots :
                keybuf[s] = k /\ Dist(kpb_last, s) = Cardinality(Before(k))
      BY <1>6, <2>3 DEF Exact
    <3>2. \A k \in Waiting : Before(k) = {} => k = m
      <4> TAKE k \in Waiting
      <4> HAVE Before(k) = {}
      <4>1. PICK s \in Slots : keybuf[s] = k /\ Dist(kpb_last, s) = 0
        BY <3>1, FS_EmptySet
      <4> QED BY <1>2, <4>1, DistType
    <3>3. Cardinality(Waiting) # 0
      BY <1>1, <1>2, <3>1, DistType
    <3>4. PICK k \in Waiting : Before(k) = {}
      BY <3>3, OldestExists, FS_EmptySet
    <3>5. m \in Waiting /\ Before(m) = {} /\ k = m
      BY <3>2, <3>4
    <3>6. \A i \in Waiting : i # m => i > m
      BY <2>1, <3>5 DEF Before
    <3>7. Waiting' = Waiting \ {m} /\ m <= Last
      <4>1. Waiting' = {i \in m + 1 .. Last : i \notin overrun}
        BY <1>1, <2>1 DEF Waiting, Last
      <4>2. m \in fed + 1 .. Last
        BY <2>1, <3>5
      <4> HIDE DEF m
      <4> QED BY <2>1, <3>6, <4>1, <4>2
    <3>8. Numbers'
      BY <1>1, <2>1, <3>7 DEF Numbers, ringVars, writerVars
    <3>9. Dist(Base', kpb_first) = Cardinality(Waiting')
      <4>1. Cardinality(Waiting \ {m}) = Cardinality(Waiting) - 1
        BY <3>5, WaitingFinite, FS_RemoveElement
      <4> QED BY <1>1, <1>2, <1>6, <3>1, <3>7, <4>1, DistGet
    <3>10. ASSUME NEW i \in Waiting'
           PROVE  \E s \in Slots : keybuf[s] = i /\ Dist(Base', s) = Cardinality(Before(i)')
      <4>1. i \in Waiting /\ i # m /\ m < i
        BY <3>6, <3>7, <3>10
      <4>2. PICK s \in Slots : keybuf[s] = i /\ Dist(kpb_last, s) = Cardinality(Before(i))
        BY <3>1, <4>1
      <4>3. Before(i)' = Before(i) \ {m} /\ m \in Before(i)
        BY <3>5, <3>7, <4>1 DEF Before
      <4>4. Cardinality(Before(i) \ {m}) = Cardinality(Before(i)) - 1
        BY <4>3, WaitingFinite, FS_RemoveElement
      <4>5. s # kpb_last
        BY <4>1, <4>2
      <4>6. Dist(After(kpb_last), s) = Dist(kpb_last, s) - 1
        BY <1>2, <4>5, DistGet
      <4> QED BY <1>6, <4>2, <4>3, <4>4, <4>6
    <3>11. Exact'
      BY <1>1, <3>9, <3>10 DEF Exact, Dist, ringVars
    <3> QED BY <3>8, <3>11
  <2> QED BY <2>2, <2>3
<1> QED BY <1>3, <1>4, <1>5, <1>7

\* kpb_last is advanced, at once or in the first of two stores.
LEMMA FeedAdvanceIInv == ASSUME IInv, FeedAdvance PROVE IInv'
<1> USE DEF IInv
<1>1. /\ rpc = "advance" /\ UNCHANGED <<threadVars, keybuf, kpb_first, writerVars, ciaVars, hpc, pastVars>>
      /\ \/ kpb_last' = After(kpb_last) /\ rpc' = "idle"
         \/ kpb_last + 1 = Size /\ kpb_last' = Size /\ rpc' = "wrap"
  BY DEF FeedAdvance
<1>2. kpb_last \in Slots /\ kpb_first \in Slots /\ Size \in Nat /\ Size > 1
  <2>1. kpb_last \in 0 .. Size /\ kpb_last # Size /\ Size \in Nat /\ Size > 1
    BY <1>1, KeyboardAssumption DEF KeyboardAssumption, Cursors, TypeOK
  <2> QED BY <2>1 DEF TypeOK, Slots
<1>3. After(kpb_last) \in Slots /\ After(kpb_last) # Size
  BY <1>2, AfterType DEF Slots
<1>4. Base' = Base
  BY <1>1, <1>2 DEF Base, After
<1>5. TypeOK'
  <2>1. kpb_last' \in 0 .. Size /\ rpc' \in {"idle", "wrap"}
    BY <1>1, <1>2, <1>3 DEF Slots
  <2> QED BY <1>1, <2>1 DEF TypeOK, writerVars, ciaVars, pastVars
<1>6. Cursors' /\ Room'
  BY <1>1, <1>3, <1>4 DEF Cursors, Room, After, writerVars, threadVars
<1>7. Waiting' = Waiting /\ \A k : Before(k)' = Before(k)
  BY <1>1 DEF Waiting, Before, writerVars, pastVars
<1>8. Numbers' /\ Patient'
  BY <1>1 DEF Numbers, Patient, Last, writerVars, ciaVars, pastVars, threadVars
<1>9. Exact'
  BY <1>1, <1>4, <1>7 DEF Exact, Dist, threadVars
<1> QED BY <1>5, <1>6, <1>8, <1>9

\* The second store.
LEMMA FeedWrapIInv == ASSUME IInv, FeedWrap PROVE IInv'
<1> USE DEF IInv
<1>1. /\ rpc = "wrap" /\ UNCHANGED <<threadVars, keybuf, kpb_first, writerVars, ciaVars, hpc, pastVars>>
      /\ kpb_last' = 0 /\ rpc' = "idle"
  BY DEF FeedWrap
<1>2. Base' = Base
  BY <1>1 DEF Base
<1>3. 0 \in 0 .. Size /\ Size # 0
  BY KeyboardAssumption DEF KeyboardAssumption
<1>4. TypeOK'
  BY <1>1, <1>3 DEF TypeOK, writerVars, ciaVars, pastVars
<1>5. Cursors' /\ Room'
  BY <1>1, <1>2, <1>3 DEF Cursors, Room, After, writerVars, threadVars
<1>6. Waiting' = Waiting /\ \A k : Before(k)' = Before(k)
  BY <1>1 DEF Waiting, Before, writerVars, pastVars
<1>7. Numbers' /\ Patient'
  BY <1>1 DEF Numbers, Patient, Last, writerVars, ciaVars, pastVars, threadVars
<1>8. Exact'
  BY <1>1, <1>2, <1>6 DEF Exact, Dist, threadVars
<1> QED BY <1>4, <1>5, <1>7, <1>8

\* An interval of CIA_hsync_handler that takes no key.
LEMMA IntervalIInv == ASSUME IInv, FeedSkips \/ FeedPowerUp \/ FeedWaits PROVE IInv'
<1> USE DEF IInv
<1>1. Elsewhere
  BY DEF FeedSkips, FeedPowerUp, FeedWaits, Elsewhere
<1>2. age \in 0 .. Patience /\ Patience \in Nat \ {0} /\ sleepyhead \in 0 .. Patience - 1
  BY KeyboardAssumption DEF KeyboardAssumption, TypeOK
<1>3. Age => age' \in 0 .. Patience /\ age' >= age /\ (age < Patience => age' = age + 1)
             /\ (age = Patience => age' = Patience)
  BY <1>2 DEF Age
<1>4. CASE FeedSkips
  <2>1. /\ Age /\ ciaasdr_unread = 2 /\ ciaasdr_unread' = 0
        /\ UNCHANGED <<kbstate, sleepyhead, ciaasdr, sp_icr, sp_out, hpc, got>>
    BY <1>4 DEF FeedSkips
  <2>2. TypeOK'
    BY <1>1, <1>3, <2>1 DEF TypeOK, Elsewhere, ringVars, writerVars
  <2>3. Patient'
    BY <2>1 DEF Patient
  <2> QED BY <1>1, <2>2, <2>3, ElsewhereKeeps
<1>5. CASE FeedPowerUp
  <2>1. /\ Age /\ ciaasdr_unread = 0 /\ kbstate < 2 /\ kbstate' = kbstate + 1 /\ ciaasdr' = 0
        /\ sp_icr' = TRUE /\ sleepyhead' = 0 /\ UNCHANGED <<ciaasdr_unread, sp_out, hpc, got>>
    BY <1>5 DEF FeedPowerUp
  <2>2. kbstate' \in 0 .. 2 /\ sleepyhead' \in 0 .. Patience - 1
    BY <1>2, <2>1 DEF TypeOK
  <2>3. sp_icr' \in BOOLEAN
    BY <2>1
  <2>4. TypeOK'
    BY <1>1, <1>3, <2>1, <2>2, <2>3 DEF TypeOK, Elsewhere, ringVars, writerVars
  <2>5. Patient'
    BY <2>1 DEF Patient
  <2> QED BY <1>1, <2>4, <2>5, ElsewhereKeeps
<1>6. CASE FeedWaits
  <2>1. /\ Age /\ ciaasdr_unread = 1 /\ sleepyhead' = (sleepyhead + 1) % Patience
        /\ ciaasdr_unread' = IF sleepyhead' = 0 THEN 0 ELSE 1
        /\ UNCHANGED <<kbstate, ciaasdr, sp_icr, sp_out, hpc, got>>
    BY <1>6 DEF FeedWaits
  <2>2. sleepyhead' = IF sleepyhead + 1 = Patience THEN 0 ELSE sleepyhead + 1
    BY <1>2, <2>1, Sleepier
  <2>3. sleepyhead' \in 0 .. Patience - 1 /\ age = sleepyhead
    BY <1>2, <2>1, <2>2 DEF Patient
  <2>4. TypeOK'
    BY <1>1, <1>3, <2>1, <2>3 DEF TypeOK, Elsewhere, ringVars, writerVars
  <2>5. Patient'
    BY <1>2, <1>3, <2>1, <2>2, <2>3 DEF Patient
  <2> QED BY <1>1, <2>4, <2>5, ElsewhereKeeps
<1> QED BY <1>4, <1>5, <1>6

\* A reset, and what the Amiga does.
LEMMA AmigaIInv == ASSUME IInv, CIA_reset \/ Amiga PROVE IInv'
<1> USE DEF IInv
<1>1. Elsewhere /\ UNCHANGED <<sleepyhead, age>>
  BY DEF CIA_reset, Amiga, HandlerBegins, HandlerReads, HandlerShakes, HandlerEnds, Polls, ReadSdr,
     Elsewhere, pastVars
<1>2. CASE CIA_reset
  <2>1. /\ kbstate' = 0 /\ ciaasdr_unread' = 0 /\ ciaasdr' = 0 /\ sp_icr' = FALSE /\ sp_out' = FALSE
        /\ hpc' = "idle" /\ got' = got
    BY <1>2 DEF CIA_reset, pastVars
  <2>2. sp_icr' \in BOOLEAN /\ sp_out' \in BOOLEAN
    BY <2>1
  <2>3. TypeOK' /\ Patient'
    BY <1>1, <2>1, <2>2 DEF TypeOK, Patient, Elsewhere, ringVars, writerVars
  <2> QED BY <1>1, <2>3, ElsewhereKeeps
<1>3. CASE HandlerReads \/ Polls
  <2>1. ReadSdr /\ hpc' \in {hpc, "shake"} /\ UNCHANGED <<kbstate, ciaasdr, sp_icr, sp_out>>
    BY <1>3 DEF HandlerReads, Polls
  <2>2. /\ ciaasdr_unread' = IF ciaasdr_unread = 1 THEN 2 ELSE ciaasdr_unread
        /\ got' = IF ciaasdr = 0 THEN got ELSE got \cup {ciaasdr}
    BY <2>1 DEF ReadSdr
  <2>3. got' \subseteq Keys /\ ciaasdr_unread' \in 0 .. 2
    BY <2>2 DEF TypeOK
  <2>4. TypeOK'
    BY <1>1, <2>1, <2>3 DEF TypeOK, Elsewhere, ringVars, writerVars
  <2>5. Patient'
    BY <1>1, <2>1, <2>2 DEF Patient
  <2> QED BY <1>1, <2>4, <2>5, ElsewhereKeeps
<1>4. CASE HandlerBegins \/ HandlerShakes \/ HandlerEnds
  <2>1. /\ ciaasdr' \in {ciaasdr, 0} /\ hpc' \in {"read", "end", "idle"}
        /\ UNCHANGED <<kbstate, ciaasdr_unread, got>>
    BY <1>4 DEF HandlerBegins, HandlerShakes, HandlerEnds, pastVars
  <2>2. sp_icr' \in BOOLEAN /\ sp_out' \in BOOLEAN
    BY <1>4 DEF HandlerBegins, HandlerShakes, HandlerEnds, TypeOK
  <2>3. TypeOK'
    BY <1>1, <2>1, <2>2 DEF TypeOK, Elsewhere, ringVars, writerVars
  <2>4. Patient'
    BY <1>1, <2>1 DEF Patient
  <2> QED BY <1>1, <2>3, <2>4, ElsewhereKeeps
<1> QED BY <1>2, <1>3, <1>4 DEF Amiga

\* Every step.
LEMMA NextIInv == IInv /\ [Next]_vars => IInv'
<1> SUFFICES ASSUME IInv, [Next]_vars PROVE IInv'
  OBVIOUS
<1>1. CASE UNCHANGED vars
  <2>1. Elsewhere /\ UNCHANGED <<ciaVars, hpc, got, age>>
    BY <1>1 DEF vars, Elsewhere, pastVars
  <2>2. TypeOK' /\ Patient'
    BY <2>1 DEF IInv, TypeOK, Patient, Elsewhere, ringVars, writerVars, ciaVars
  <2> QED BY <2>1, <2>2, ElsewhereKeeps DEF IInv
<1> QED
  BY <1>1, RecordKeyIInv, RecordStoreIInv, RecordPublishIInv, FeedKeyIInv, FeedAdvanceIInv,
     FeedWrapIInv, IntervalIInv, AmigaIInv
  DEF Next, hsync

\* What the invariant says between two calls of get_next_key is QueueExact.
LEMMA ExactBetweenCalls == IInv => KeysKept
<1> SUFFICES ASSUME IInv, rpc = "idle", ~raced
             PROVE  /\ Place(kpb_first) = Cardinality(Waiting)
                    /\ \A k \in Waiting : \E s \in Slots :
                         /\ keybuf[s] = k
                         /\ Place(s) = Cardinality({i \in Waiting : i < k})
  BY DEF KeysKept, QueueExact, IInv
<1>1. \A s : Place(s) = Dist(Base, s)
  BY DEF Place, Dist, Base
<1> QED BY <1>1 DEF IInv, Exact, Before

\* Only FeedKey brings another key.
LEMMA RunOverNeedsPatience ==
  IInv /\ [Next]_vars =>
    ((ciaasdr' > ciaasdr /\ ciaasdr # 0 /\ ciaasdr \notin got) => age >= Patience)
<1> SUFFICES ASSUME IInv, [Next]_vars, ciaasdr' > ciaasdr, ciaasdr # 0, ciaasdr \notin got
             PROVE  age >= Patience
  OBVIOUS
<1>1. ciaasdr \in Nat /\ Patience \in Nat
  BY KeyboardAssumption DEF KeyboardAssumption, IInv, TypeOK, Keys
<1>2. ciaasdr' # ciaasdr /\ ciaasdr' # 0
  BY <1>1
<1>3. FeedKey
  BY <1>2 DEF Next, vars, ciaVars, record_key, RecordStore, RecordPublish, hsync, FeedSkips, FeedPowerUp,
     FeedAdvance, FeedWrap, FeedWaits, CIA_reset, Amiga, HandlerBegins, HandlerReads, HandlerShakes,
     HandlerEnds, Polls
<1>4. ciaasdr_unread = 0
  BY <1>3 DEF FeedKey
<1> QED BY <1>1, <1>4 DEF IInv, Patient

-----------------------------------------------------------------------------
\* The strengthening is an invariant, for every constant of the model.
THEOREM InvariantHolds == Spec => []IInv
BY InitIInv, NextIInv, PTL DEF Spec

\* "This code should be perfectly thread safe" (keybuf.c:11): the ring holds
\* exactly the keys that wait, in the order typed, whatever its size, unless a key
\* was recorded between the two stores of the wrap.
THEOREM KeysWaitInOrder == Spec => []KeysKept
BY InvariantHolds, ExactBetweenCalls, PTL

\* However the program reads and shakes hands, and whenever it is reset, a key it
\* has not read makes way only after the CIA's patience (cia.c:401).
THEOREM UnreadKeysStay == Spec => NoKeyRunOver
<1>1. IInv /\ [Next]_vars =>
        [(ciaasdr' > ciaasdr /\ ciaasdr # 0 /\ ciaasdr \notin got) => age >= Patience]_vars
  BY RunOverNeedsPatience
<1> QED BY <1>1, InvariantHolds, PTL DEF Spec, NoKeyRunOver

-----------------------------------------------------------------------------
(* The SCSI unit: its types, and its invariant.                            *)

Items == {Death} \cup [req : Requests, boot : 0 .. MaxResets]
EmuPlaces == {"cpu", "open", "abort", "exit", "exit_wait", "killed", "clear"}

Kinds ==
    /\ d_request \in [ScsiSlots -> Requests \cup {None}]
    /\ thread_running \in {0, 1} /\ {sync_sem, change_sem, opencnt} \subseteq Nat
    /\ thread \in [Threads -> [at : Where, req : Items]] /\ requests \in Seq(Items)
    /\ emu \in [at : EmuPlaces, req : Requests \cup {None}]
    /\ owner \in [Requests -> {"Amiga", "device"}]
    /\ boot \in 0 .. MaxResets /\ opens \in 0 .. MaxOpens

Resetting == emu.at \in {"exit", "exit_wait", "killed", "clear"}

\* Those who have yet to post sync_sem (one who starts will do so twice), and
\* those who have yet to post change_sem.
Posters == {"start", "read", "lock", "work", "die", "post"}
Lockers == {"work", "die", "post", "leave"}
Count(P) == Cardinality({n \in Threads : thread[n].at \in P})

\* An open is good for the posts of one thread, and one of them is awaited
\* there; a reset is good for one post of change_sem.
Counts ==
    /\ opencnt <= opens
    /\ emu.at = "open" => opencnt = 0 /\ opens >= 1
    /\ sync_sem + Count({"start"}) + Count(Posters)
         <= opens + (IF emu.at = "open" THEN 1 ELSE 0)
    /\ change_sem + Count(Lockers) <= 1 + boot - (IF Resetting THEN 1 ELSE 0)

\* Threads are started in turn.
InTurn == \A n, m \in Threads : n < m /\ thread[n].at = "none" => thread[m].at = "none"
Newest(n) == thread[n].at # "none" /\ \A m \in Threads : n < m => thread[m].at = "none"

\* dev_open waits for a thread that has nothing to read yet.
Fresh == emu.at = "open" =>
    requests = <<>> /\ \E n \in Threads : Newest(n) /\ thread[n].at \in {"start", "read"}

\* Without the races, only the newest thread serves, and the semaphore is posted
\* by it: where nobody is starting, a post says that it is dead.
Known == ~early /\ astray = {} =>
    /\ emu.at = "open" => sync_sem <= 1
    /\ \A n \in Threads :
          /\ thread[n].at \in {"start", "read", "lock", "work", "die"} => Newest(n)
          /\ thread[n].at = "start" => emu.at = "open" /\ sync_sem = 0 /\ thread_running = 0
          /\ thread[n].at \in {"read", "lock", "work", "die"} => thread_running = 1
          /\ Newest(n) /\ (emu.at = "killed" \/ (emu.at # "open" /\ sync_sem > 0))
               => thread[n].at \in {"leave", "gone"}

\* A thread has a request from its lock to its work.
Carry == \A n \in Threads :
    /\ thread[n].req # Death => thread[n].at \in {"lock", "work"}
    /\ thread[n].at = "work" => thread[n].req # Death

\* A request of this boot is in one place only, and its unit is open.
Now(i) == i.req # None /\ i.boot = boot
OneCopy ==
    /\ \A i, j \in 1 .. Len(requests) :
          i # j /\ Now(requests[i]) /\ Now(requests[j]) => requests[i].req # requests[j].req
    /\ \A n, m \in Threads :
          n # m /\ Now(thread[n].req) /\ Now(thread[m].req) => thread[n].req.req # thread[m].req.req
    /\ \A n \in Threads, i \in 1 .. Len(requests) :
          Now(requests[i]) /\ Now(thread[n].req) => requests[i].req # thread[n].req.req
Wanted(i) ==
    /\ i.boot <= boot
    /\ Now(i) => opencnt > 0 /\ ~Resetting /\ owner[i.req] = "device"
Current ==
    /\ \A i \in 1 .. Len(requests) : Wanted(requests[i])
    /\ \A n \in Threads : Wanted(thread[n].req)

Opened == opencnt > 0 \/ emu.at = "open" => host \/ inherited

ScsiIInv ==
    /\ Kinds /\ Counts /\ InTurn /\ Fresh /\ Known /\ Carry /\ OneCopy /\ Current /\ Opened

-----------------------------------------------------------------------------
(* Threads that move, and requests in the pipe.                            *)

\* The constants of the unit.
LEMMA ScsiSizes ==
  /\ MaxOpens \in Nat /\ MaxResets \in Nat /\ None \notin Requests
  /\ Death \in Items /\ Death.req = None /\ Death.boot = 0
  /\ \A i \in Items : (i.req = None <=> i = Death) /\ i.boot \in 0 .. MaxResets
                      /\ (i.req # None => i.req \in Requests)
<1>1. MaxOpens \in Nat /\ MaxResets \in Nat /\ None \notin Requests
  BY ScsiAssumption DEF ScsiAssumption
<1> QED BY <1>1 DEF Items, Death

\* A thread that moves is counted where it is, and no longer where it was.
LEMMA Moves ==
  ASSUME thread \in [Threads -> [at : Where, req : Items]], NEW n \in Threads,
         NEW x, thread' = [thread EXCEPT ![n] = x], NEW P
  PROVE  /\ Count(P) \in Nat /\ Count(P)' \in Nat
         /\ Count(P)' = Count(P) + (IF x.at \in P THEN 1 ELSE 0)
                                 - (IF thread[n].at \in P THEN 1 ELSE 0)
<1> DEFINE S == {m \in Threads : thread[m].at \in P}
           T == {m \in Threads : thread'[m].at \in P}
<1>1. IsFiniteSet(Threads)
  BY ScsiSizes, FS_Interval DEF Threads
<1>2. IsFiniteSet(S) /\ IsFiniteSet(T)
  BY <1>1, FS_Subset
<1>3. Cardinality(S) \in Nat /\ Cardinality(T) \in Nat
  BY <1>2, FS_CardinalityType
<1>4. (n \in T <=> x.at \in P) /\ (n \in S <=> thread[n].at \in P)
  OBVIOUS
<1>5. S \ {n} = T \ {n}
  OBVIOUS
<1> HIDE DEF S, T
<1>6. /\ Cardinality(S \ {n}) = IF n \in S THEN Cardinality(S) - 1 ELSE Cardinality(S)
      /\ Cardinality(T \ {n}) = IF n \in T THEN Cardinality(T) - 1 ELSE Cardinality(T)
  BY <1>2, FS_RemoveElement
<1>7. Cardinality(T) = Cardinality(S) + (IF n \in T THEN 1 ELSE 0) - (IF n \in S THEN 1 ELSE 0)
  <2> DEFINE a == Cardinality(S)
             b == Cardinality(T)
             k == Cardinality(S \ {n})
  <2>1. k = (IF n \in S THEN a - 1 ELSE a) /\ k = (IF n \in T THEN b - 1 ELSE b)
    BY <1>5, <1>6
  <2>2. a \in Nat /\ b \in Nat
    BY <1>3
  <2> HIDE DEF a, b, k
  <2>3. b = a + (IF n \in T THEN 1 ELSE 0) - (IF n \in S THEN 1 ELSE 0)
    BY <2>1, <2>2
  <2> QED BY <2>3 DEF a, b
<1> QED BY <1>3, <1>4, <1>7 DEF Count, S, T

\* Threads that stay are counted as before.
LEMMA MovesNot ==
  ASSUME thread' = thread, NEW P
  PROVE  Count(P) \in Nat /\ Count(P)' = Count(P)
<1> DEFINE S == {m \in Threads : thread[m].at \in P}
<1>1. IsFiniteSet(Threads)
  BY ScsiSizes, FS_Interval DEF Threads
<1>2. IsFiniteSet(S)
  BY <1>1, FS_Subset
<1>3. Cardinality(S) \in Nat
  BY <1>2, FS_CardinalityType
<1> QED BY <1>3 DEF Count

\* What is sent goes to the end of the pipe, what is there stays.
LEMMA Sends ==
  ASSUME NEW s \in Seq(Items), NEW x \in Items
  PROVE  /\ Append(s, x) \in Seq(Items) /\ Len(Append(s, x)) = Len(s) + 1 /\ Len(s) \in Nat
         /\ Append(s, x)[Len(s) + 1] = x /\ \A i \in 1 .. Len(s) : Append(s, x)[i] = s[i]
OBVIOUS

\* What is read is not in the pipe any more, the rest is one place further.
LEMMA Receives ==
  ASSUME NEW s \in Seq(Items), s # <<>>
  PROVE  /\ Head(s) \in Items /\ Head(s) = s[1] /\ Len(s) \in Nat /\ Len(s) >= 1
         /\ Tail(s) \in Seq(Items) /\ Len(Tail(s)) = Len(s) - 1
         /\ \A i \in 1 .. Len(Tail(s)) : i + 1 \in 1 .. Len(s) /\ Tail(s)[i] = s[i + 1]
OBVIOUS

-----------------------------------------------------------------------------
(* The steps of the unit's threads.                                        *)

\* What a step does not touch when a thread moves from one place to the next.
LEMMA ThreadMoves ==
  ASSUME ScsiIInv, NEW n \in Threads, NEW x \in [at : Where, req : Items],
         thread' = [thread EXCEPT ![n] = x], thread[n].at # "none", x.at # "none",
         UNCHANGED <<emu, opencnt, opens, boot, host, inherited>>,
         thread[n].at = "start" => x.at = "read",
         thread[n].at = "read" => requests # <<>>, thread[n].at # "read" => UNCHANGED requests,
         x.req # Death => x.at \in {"lock", "work"}, x.at = "work" => x.req # Death
  PROVE  /\ thread' \in [Threads -> [at : Where, req : Items]]
         /\ thread'[n] = x /\ \A m \in Threads \ {n} : thread'[m] = thread[m]
         /\ \A m \in Threads : Newest(m)' <=> Newest(m)
         /\ InTurn' /\ Carry' /\ Fresh' /\ Opened'
<1>0. thread \in [Threads -> [at : Where, req : Items]]
  BY DEF ScsiIInv, Kinds
<1>1. /\ thread' \in [Threads -> [at : Where, req : Items]]
      /\ thread'[n] = x /\ \A m \in Threads \ {n} : thread'[m] = thread[m]
  BY <1>0
<1>2. \A m \in Threads : thread'[m].at = "none" <=> thread[m].at = "none"
  BY <1>1
<1>3. \A m \in Threads : Newest(m)' <=> Newest(m)
  BY <1>2 DEF Newest
<1>4. InTurn'
  BY <1>2 DEF ScsiIInv, InTurn
<1>5. Carry'
  BY <1>1 DEF ScsiIInv, Carry
<1>6. Fresh'
  <2> SUFFICES ASSUME emu.at = "open"
               PROVE  requests' = <<>> /\ \E m \in Threads : Newest(m)' /\ thread'[m].at \in {"start", "read"}
    BY DEF Fresh
  <2>1. requests = <<>> /\ requests' = <<>>
    BY DEF ScsiIInv, Fresh
  <2>2. PICK m \in Threads : Newest(m) /\ thread[m].at \in {"start", "read"}
    BY DEF ScsiIInv, Fresh
  <2>3. thread'[m].at \in {"start", "read"}
    BY <1>1, <2>1, <2>2
  <2> QED BY <1>3, <2>1, <2>2, <2>3
<1>7. Opened'
  BY DEF ScsiIInv, Opened
<1> QED BY <1>1, <1>3, <1>4, <1>5, <1>6, <1>7

\* What a thread that moves adds to a count.
Change(P, from, to) == (IF to \in P THEN 1 ELSE 0) - (IF from \in P THEN 1 ELSE 0)

\* The counts of posts to come, when a thread moves.
LEMMA CountsMove ==
  ASSUME thread \in [Threads -> [at : Where, req : Items]], NEW n \in Threads,
         NEW x, thread' = [thread EXCEPT ![n] = x]
  PROVE  /\ {Count({"start"}), Count(Posters), Count(Lockers)} \subseteq Nat
         /\ Count({"start"})' = Count({"start"}) + Change({"start"}, thread[n].at, x.at)
         /\ Count(Posters)' = Count(Posters) + Change(Posters, thread[n].at, x.at)
         /\ Count(Lockers)' = Count(Lockers) + Change(Lockers, thread[n].at, x.at)
<1>1. ASSUME NEW P
      PROVE  Count(P) \in Nat /\ Count(P)' = Count(P) + Change(P, thread[n].at, x.at)
  <2>1. /\ Count(P) \in Nat /\ Count(P)' \in Nat
        /\ Count(P)' = Count(P) + (IF x.at \in P THEN 1 ELSE 0) - (IF thread[n].at \in P THEN 1 ELSE 0)
    BY Moves
  <2> QED BY <2>1 DEF Change
<1>2. Count({"start"}) \in Nat /\ Count({"start"})' = Count({"start"}) + Change({"start"}, thread[n].at, x.at)
  BY <1>1
<1>3. Count(Posters) \in Nat /\ Count(Posters)' = Count(Posters) + Change(Posters, thread[n].at, x.at)
  BY <1>1
<1>4. Count(Lockers) \in Nat /\ Count(Lockers)' = Count(Lockers) + Change(Lockers, thread[n].at, x.at)
  BY <1>1
<1> QED BY <1>2, <1>3, <1>4

\* A thread goes from one place to the next with what it has.
LEMMA Goes ==
  ASSUME thread \in [Threads -> [at : Where, req : Items]], NEW n \in Threads,
         NEW from, NEW to \in Where, Go(n, from, to)
  PROVE  /\ thread' = [thread EXCEPT ![n] = At(to, thread[n].req)] /\ thread[n].at = from
         /\ At(to, thread[n].req) \in [at : Where, req : Items]
         /\ At(to, thread[n].req).at = to /\ At(to, thread[n].req).req = thread[n].req
<1> DEFINE t == thread[n]
<1>1. t \in [at : Where, req : Items] /\ t.at = from /\ thread' = [thread EXCEPT ![n].at = to]
  BY DEF Go
<1>2. thread' = [thread EXCEPT ![n] = [t EXCEPT !.at = to]]
  BY <1>1
<1> HIDE DEF t
<1>3. [t EXCEPT !.at = to] = At(to, t.req)
  BY <1>1 DEF At
<1>4. At(to, t.req) \in [at : Where, req : Items] /\ At(to, t.req).at = to /\ At(to, t.req).req = t.req
  BY <1>1 DEF At
<1> QED BY <1>1, <1>2, <1>3, <1>4 DEF t

\* The requests stay where they are when the thread keeps its own.
LEMMA RequestsStay ==
  ASSUME OneCopy, Current, UNCHANGED <<requests, boot, opencnt, owner>>, Resetting' = Resetting,
         \A m \in Threads : thread'[m].req = thread[m].req
  PROVE  OneCopy' /\ Current'
<1>1. \A i : (Now(i)' <=> Now(i)) /\ (Wanted(i)' <=> Wanted(i))
  BY DEF Now, Wanted
<1> QED BY <1>1 DEF OneCopy, Current

\* The thread has started, and says so.
LEMMA ThreadStartsIInv == ASSUME ScsiIInv, NEW n \in Threads, ThreadStarts(n) PROVE ScsiIInv'
<1> DEFINE x == At("read", thread[n].req)
<1>0. /\ Kinds /\ Counts /\ Known /\ Carry /\ OneCopy /\ Current
      /\ thread \in [Threads -> [at : Where, req : Items]]
  BY DEF ScsiIInv, Kinds
<1>1. /\ thread' = [thread EXCEPT ![n] = x] /\ thread[n].at = "start" /\ x \in [at : Where, req : Items]
      /\ thread_running' = 1 /\ sync_sem' = sync_sem + 1
      /\ UNCHANGED <<opencnt, d_request, requests, change_sem, owner, emu, boot, early, astray, opens>>
      /\ UNCHANGED <<host, inherited>>
  <2>1. Go(n, "start", "read") /\ "read" \in Where
    BY DEF ThreadStarts, Where
  <2> QED BY <1>0, <2>1, Goes DEF ThreadStarts, emuVars, driveVars, counters
<1>2. /\ x.at = "read" /\ x.req = thread[n].req /\ x.req = Death
  BY <1>0, <1>1 DEF At, Carry
<1> HIDE DEF x
<1>3. /\ thread' \in [Threads -> [at : Where, req : Items]]
      /\ thread'[n] = x /\ \A m \in Threads \ {n} : thread'[m] = thread[m]
      /\ \A m \in Threads : Newest(m)' <=> Newest(m)
      /\ InTurn' /\ Carry' /\ Fresh' /\ Opened'
  BY <1>1, <1>2, ThreadMoves
<1>4. Kinds'
  BY <1>0, <1>1, <1>3 DEF Kinds
<1>5. Counts'
  <2>1. /\ Count({"start"})' = Count({"start"}) - 1 /\ Count(Posters)' = Count(Posters)
        /\ Count(Lockers)' = Count(Lockers)
        /\ Count({"start"}) \in Nat /\ Count(Posters) \in Nat /\ Count(Lockers) \in Nat
    <3>1. /\ Change({"start"}, "start", "read") = 0 - 1 /\ Change(Posters, "start", "read") = 0
          /\ Change(Lockers, "start", "read") = 0
      BY DEF Change, Posters, Lockers
    <3>2. /\ Count({"start"})' = Count({"start"}) + Change({"start"}, "start", "read")
          /\ Count(Posters)' = Count(Posters) + Change(Posters, "start", "read")
          /\ Count(Lockers)' = Count(Lockers) + Change(Lockers, "start", "read")
          /\ {Count({"start"}), Count(Posters), Count(Lockers)} \subseteq Nat
      BY <1>0, <1>1, <1>2, CountsMove
    <3> QED BY <3>1, <3>2
  <2>2. (Resetting' <=> Resetting) /\ sync_sem \in Nat
    BY <1>0, <1>1 DEF Resetting, Kinds
  <2> QED BY <1>0, <1>1, <2>1, <2>2 DEF Counts
<1>6. Known'
  <2> SUFFICES ASSUME ~early, astray = {} PROVE Known'
    BY <1>1 DEF Known
  <2>1. /\ emu.at = "open" /\ sync_sem = 0 /\ Newest(n)
        /\ \A m \in Threads : Newest(m) => m = n
    <3>1. emu.at = "open" /\ sync_sem = 0 /\ Newest(n)
      BY <1>0, <1>1 DEF Known
    <3>2. \A m \in Threads : Newest(m) => m = n
      BY <3>1, ScsiSizes DEF Newest, Threads
    <3> QED BY <3>1, <3>2
  <2>2. \A m \in Threads \ {n} : thread[m].at \notin {"start", "read", "lock", "work", "die"}
    BY <1>0, <2>1 DEF Known
  <2> QED BY <1>0, <1>1, <1>2, <1>3, <2>1, <2>2 DEF Known
<1>7. OneCopy' /\ Current'
  <2>1. Resetting' = Resetting /\ \A m \in Threads : thread'[m].req = thread[m].req
    BY <1>1, <1>2, <1>3 DEF Resetting
  <2> QED BY <1>0, <1>1, <2>1, RequestsStay
<1> QED BY <1>3, <1>4, <1>5, <1>6, <1>7 DEF ScsiIInv

\* The thread takes change_sem: to die of a death message, or to work.
LEMMA ThreadLocksIInv == ASSUME ScsiIInv, NEW n \in Threads, ThreadLocks(n) PROVE ScsiIInv'
<1> DEFINE to == IF thread[n].req = Death THEN "die" ELSE "work"
           x == At(to, thread[n].req)
<1>0. /\ Kinds /\ Counts /\ Known /\ Carry /\ OneCopy /\ Current /\ Fresh
      /\ thread \in [Threads -> [at : Where, req : Items]]
  BY DEF ScsiIInv, Kinds
<1>1. /\ thread' = [thread EXCEPT ![n] = x] /\ thread[n].at = "lock" /\ x \in [at : Where, req : Items]
      /\ x.at = to /\ x.req = thread[n].req
      /\ change_sem > 0 /\ change_sem' = change_sem - 1
      /\ UNCHANGED <<thread_running, sync_sem, early>>
      /\ UNCHANGED <<emu, opencnt, d_request, requests, owner, boot, astray, opens, host, inherited>>
  <2>1. Go(n, "lock", to) /\ to \in Where
    BY DEF ThreadLocks, Where
  <2> HIDE DEF to
  <2>2. /\ thread' = [thread EXCEPT ![n] = x] /\ thread[n].at = "lock" /\ x \in [at : Where, req : Items]
        /\ x.at = to /\ x.req = thread[n].req
    BY <1>0, <2>1, Goes
  <2> QED BY <2>2 DEF ThreadLocks, emuVars, driveVars, devVars, counters
<1>2. x.at \in {"die", "work"} /\ (x.req # Death => x.at = "work") /\ (x.at = "work" => x.req # Death)
  BY <1>0, <1>1 DEF Carry
<1> HIDE DEF x, to
<1>3. /\ thread' \in [Threads -> [at : Where, req : Items]]
      /\ thread'[n] = x /\ \A m \in Threads \ {n} : thread'[m] = thread[m]
      /\ \A m \in Threads : Newest(m)' <=> Newest(m)
      /\ InTurn' /\ Carry' /\ Fresh' /\ Opened'
  BY <1>1, <1>2, ThreadMoves
<1>4. Kinds'
  BY <1>0, <1>1, <1>3 DEF Kinds
<1>5. Counts'
  <2>1. /\ Count({"start"})' = Count({"start"}) /\ Count(Posters)' = Count(Posters)
        /\ Count(Lockers)' = Count(Lockers) + 1
        /\ Count({"start"}) \in Nat /\ Count(Posters) \in Nat /\ Count(Lockers) \in Nat
    <3>1. /\ Change({"start"}, "lock", x.at) = 0 /\ Change(Posters, "lock", x.at) = 0
          /\ Change(Lockers, "lock", x.at) = 1
      BY <1>2 DEF Change, Posters, Lockers
    <3>2. /\ Count({"start"})' = Count({"start"}) + Change({"start"}, "lock", x.at)
          /\ Count(Posters)' = Count(Posters) + Change(Posters, "lock", x.at)
          /\ Count(Lockers)' = Count(Lockers) + Change(Lockers, "lock", x.at)
          /\ {Count({"start"}), Count(Posters), Count(Lockers)} \subseteq Nat
      BY <1>0, <1>1, CountsMove
    <3> QED BY <3>1, <3>2
  <2>2. (Resetting' <=> Resetting) /\ sync_sem \in Nat /\ change_sem \in Nat
    BY <1>0, <1>1 DEF Resetting, Kinds
  <2> QED BY <1>0, <1>1, <2>1, <2>2 DEF Counts
<1>6. Known'
  BY <1>0, <1>1, <1>2, <1>3 DEF Known
<1>7. OneCopy' /\ Current'
  <2>1. Resetting' = Resetting /\ \A m \in Threads : thread'[m].req = thread[m].req
    BY <1>1, <1>2, <1>3 DEF Resetting
  <2> QED BY <1>0, <1>1, <2>1, RequestsStay
<1> QED BY <1>3, <1>4, <1>5, <1>6, <1>7 DEF ScsiIInv

\* The thread is dead, and says so.
LEMMA ThreadDiesIInv == ASSUME ScsiIInv, NEW n \in Threads, ThreadDies(n) PROVE ScsiIInv'
<1> DEFINE to == "post"
           x == At(to, thread[n].req)
<1>0. /\ Kinds /\ Counts /\ Known /\ Carry /\ OneCopy /\ Current /\ Fresh
      /\ thread \in [Threads -> [at : Where, req : Items]]
  BY DEF ScsiIInv, Kinds
<1>1. /\ thread' = [thread EXCEPT ![n] = x] /\ thread[n].at = "die" /\ x \in [at : Where, req : Items]
      /\ x.at = to /\ x.req = thread[n].req
      /\ thread_running' = 0
      /\ UNCHANGED <<change_sem, sync_sem, early>>
      /\ UNCHANGED <<emu, opencnt, d_request, requests, owner, boot, astray, opens, host, inherited>>
  <2>1. Go(n, "die", to) /\ to \in Where
    BY DEF ThreadDies, Where
  <2> HIDE DEF to
  <2>2. /\ thread' = [thread EXCEPT ![n] = x] /\ thread[n].at = "die" /\ x \in [at : Where, req : Items]
        /\ x.at = to /\ x.req = thread[n].req
    BY <1>0, <2>1, Goes
  <2> QED BY <2>2 DEF ThreadDies, emuVars, driveVars, devVars, counters
<1>2. x.at = "post" /\ x.req = Death
  BY <1>0, <1>1 DEF Carry
<1> HIDE DEF x, to
<1>3. /\ thread' \in [Threads -> [at : Where, req : Items]]
      /\ thread'[n] = x /\ \A m \in Threads \ {n} : thread'[m] = thread[m]
      /\ \A m \in Threads : Newest(m)' <=> Newest(m)
      /\ InTurn' /\ Carry' /\ Fresh' /\ Opened'
  BY <1>1, <1>2, ThreadMoves
<1>4. Kinds'
  BY <1>0, <1>1, <1>3 DEF Kinds
<1>5. Counts'
  <2>1. /\ Count({"start"})' = Count({"start"}) /\ Count(Posters)' = Count(Posters)
        /\ Count(Lockers)' = Count(Lockers)
        /\ Count({"start"}) \in Nat /\ Count(Posters) \in Nat /\ Count(Lockers) \in Nat
    <3>1. /\ Change({"start"}, "die", x.at) = 0 /\ Change(Posters, "die", x.at) = 0
          /\ Change(Lockers, "die", x.at) = 0
      BY <1>2 DEF Change, Posters, Lockers
    <3>2. /\ Count({"start"})' = Count({"start"}) + Change({"start"}, "die", x.at)
          /\ Count(Posters)' = Count(Posters) + Change(Posters, "die", x.at)
          /\ Count(Lockers)' = Count(Lockers) + Change(Lockers, "die", x.at)
          /\ {Count({"start"}), Count(Posters), Count(Lockers)} \subseteq Nat
      BY <1>0, <1>1, CountsMove
    <3> QED BY <3>1, <3>2
  <2>2. (Resetting' <=> Resetting) /\ sync_sem \in Nat /\ change_sem \in Nat
    BY <1>0, <1>1 DEF Resetting, Kinds
  <2> QED BY <1>0, <1>1, <2>1, <2>2 DEF Counts
<1>6. Known'
  <2> SUFFICES ASSUME ~early, astray = {} PROVE Known'
    BY <1>1 DEF Known
  <2>1. Newest(n) /\ \A m \in Threads : Newest(m) => m = n
    <3>1. Newest(n)
      BY <1>0, <1>1 DEF Known
    <3> QED BY <3>1, ScsiSizes DEF Newest, Threads
  <2>2. \A m \in Threads \ {n} : thread[m].at \notin {"start", "read", "lock", "work", "die"}
    BY <1>0, <2>1 DEF Known
  <2> QED BY <1>0, <1>1, <1>2, <1>3, <2>1, <2>2 DEF Known
<1>7. OneCopy' /\ Current'
  <2>1. Resetting' = Resetting /\ \A m \in Threads : thread'[m].req = thread[m].req
    BY <1>1, <1>2, <1>3 DEF Resetting
  <2> QED BY <1>0, <1>1, <2>1, RequestsStay
<1> QED BY <1>3, <1>4, <1>5, <1>6, <1>7 DEF ScsiIInv

\* The dying thread posts the semaphore.
LEMMA ThreadPostsIInv == ASSUME ScsiIInv, NEW n \in Threads, ThreadPosts(n) PROVE ScsiIInv'
<1> DEFINE to == "leave"
           x == At(to, thread[n].req)
<1>0. /\ Kinds /\ Counts /\ Known /\ Carry /\ OneCopy /\ Current /\ Fresh
      /\ thread \in [Threads -> [at : Where, req : Items]]
  BY DEF ScsiIInv, Kinds
<1>1. /\ thread' = [thread EXCEPT ![n] = x] /\ thread[n].at = "post" /\ x \in [at : Where, req : Items]
      /\ x.at = to /\ x.req = thread[n].req
      /\ sync_sem' = sync_sem + 1
      /\ early' = (early \/ \E m \in Threads : m > n /\ thread[m].at # "none")
      /\ UNCHANGED <<change_sem, thread_running>>
      /\ UNCHANGED <<emu, opencnt, d_request, requests, owner, boot, astray, opens, host, inherited>>
  <2>1. Go(n, "post", to) /\ to \in Where
    BY DEF ThreadPosts, Where
  <2> HIDE DEF to
  <2>2. /\ thread' = [thread EXCEPT ![n] = x] /\ thread[n].at = "post" /\ x \in [at : Where, req : Items]
        /\ x.at = to /\ x.req = thread[n].req
    BY <1>0, <2>1, Goes
  <2> QED BY <2>2 DEF ThreadPosts, emuVars, driveVars, devVars, counters
<1>2. x.at = "leave" /\ x.req = Death
  BY <1>0, <1>1 DEF Carry
<1> HIDE DEF x, to
<1>3. /\ thread' \in [Threads -> [at : Where, req : Items]]
      /\ thread'[n] = x /\ \A m \in Threads \ {n} : thread'[m] = thread[m]
      /\ \A m \in Threads : Newest(m)' <=> Newest(m)
      /\ InTurn' /\ Carry' /\ Fresh' /\ Opened'
  BY <1>1, <1>2, ThreadMoves
<1>4. Kinds'
  BY <1>0, <1>1, <1>3 DEF Kinds
<1>5. Counts'
  <2>1. /\ Count({"start"})' = Count({"start"}) /\ Count(Posters)' = Count(Posters) - 1
        /\ Count(Lockers)' = Count(Lockers)
        /\ Count({"start"}) \in Nat /\ Count(Posters) \in Nat /\ Count(Lockers) \in Nat
    <3>1. /\ Change({"start"}, "post", x.at) = 0 /\ Change(Posters, "post", x.at) = 0 - 1
          /\ Change(Lockers, "post", x.at) = 0
      BY <1>2 DEF Change, Posters, Lockers
    <3>2. /\ Count({"start"})' = Count({"start"}) + Change({"start"}, "post", x.at)
          /\ Count(Posters)' = Count(Posters) + Change(Posters, "post", x.at)
          /\ Count(Lockers)' = Count(Lockers) + Change(Lockers, "post", x.at)
          /\ {Count({"start"}), Count(Posters), Count(Lockers)} \subseteq Nat
      BY <1>0, <1>1, CountsMove
    <3> QED BY <3>1, <3>2
  <2>2. (Resetting' <=> Resetting) /\ sync_sem \in Nat /\ change_sem \in Nat
    BY <1>0, <1>1 DEF Resetting, Kinds
  <2> QED BY <1>0, <1>1, <2>1, <2>2 DEF Counts
<1>6. Known'
  <2> SUFFICES ASSUME ~early', astray = {} PROVE Known'
    BY <1>1 DEF Known
  <2>0. ~early
    BY <1>1
  <2>1. Newest(n) /\ \A m \in Threads : Newest(m) => m = n
    <3>1. Newest(n)
      BY <1>1, ScsiSizes DEF Newest, Threads
    <3> QED BY <3>1, ScsiSizes DEF Newest, Threads
  <2>2. \A m \in Threads : thread[m].at \notin {"start", "read", "lock", "work", "die"}
    BY <1>0, <1>1, <2>0, <2>1 DEF Known
  <2>3. emu.at # "open"
    BY <1>0, <2>2 DEF Fresh
  <2> QED BY <1>0, <1>1, <1>2, <1>3, <2>0, <2>1, <2>2, <2>3 DEF Known
<1>7. OneCopy' /\ Current'
  <2>1. Resetting' = Resetting /\ \A m \in Threads : thread'[m].req = thread[m].req
    BY <1>1, <1>2, <1>3 DEF Resetting
  <2> QED BY <1>0, <1>1, <2>1, RequestsStay
<1> QED BY <1>3, <1>4, <1>5, <1>6, <1>7 DEF ScsiIInv

\* The dead thread gives change_sem back.
LEMMA ThreadLeavesIInv == ASSUME ScsiIInv, NEW n \in Threads, ThreadLeaves(n) PROVE ScsiIInv'
<1> DEFINE to == "gone"
           x == At(to, thread[n].req)
<1>0. /\ Kinds /\ Counts /\ Known /\ Carry /\ OneCopy /\ Current /\ Fresh
      /\ thread \in [Threads -> [at : Where, req : Items]]
  BY DEF ScsiIInv, Kinds
<1>1. /\ thread' = [thread EXCEPT ![n] = x] /\ thread[n].at = "leave" /\ x \in [at : Where, req : Items]
      /\ x.at = to /\ x.req = thread[n].req
      /\ change_sem' = change_sem + 1
      /\ UNCHANGED <<sync_sem, thread_running, early>>
      /\ UNCHANGED <<emu, opencnt, d_request, requests, owner, boot, astray, opens, host, inherited>>
  <2>1. Go(n, "leave", to) /\ to \in Where
    BY DEF ThreadLeaves, Where
  <2> HIDE DEF to
  <2>2. /\ thread' = [thread EXCEPT ![n] = x] /\ thread[n].at = "leave" /\ x \in [at : Where, req : Items]
        /\ x.at = to /\ x.req = thread[n].req
    BY <1>0, <2>1, Goes
  <2> QED BY <2>2 DEF ThreadLeaves, emuVars, driveVars, devVars, counters
<1>2. x.at = "gone" /\ x.req = Death
  BY <1>0, <1>1 DEF Carry
<1> HIDE DEF x, to
<1>3. /\ thread' \in [Threads -> [at : Where, req : Items]]
      /\ thread'[n] = x /\ \A m \in Threads \ {n} : thread'[m] = thread[m]
      /\ \A m \in Threads : Newest(m)' <=> Newest(m)
      /\ InTurn' /\ Carry' /\ Fresh' /\ Opened'
  BY <1>1, <1>2, ThreadMoves
<1>4. Kinds'
  BY <1>0, <1>1, <1>3 DEF Kinds
<1>5. Counts'
  <2>1. /\ Count({"start"})' = Count({"start"}) /\ Count(Posters)' = Count(Posters)
        /\ Count(Lockers)' = Count(Lockers) - 1
        /\ Count({"start"}) \in Nat /\ Count(Posters) \in Nat /\ Count(Lockers) \in Nat
    <3>1. /\ Change({"start"}, "leave", x.at) = 0 /\ Change(Posters, "leave", x.at) = 0
          /\ Change(Lockers, "leave", x.at) = 0 - 1
      BY <1>2 DEF Change, Posters, Lockers
    <3>2. /\ Count({"start"})' = Count({"start"}) + Change({"start"}, "leave", x.at)
          /\ Count(Posters)' = Count(Posters) + Change(Posters, "leave", x.at)
          /\ Count(Lockers)' = Count(Lockers) + Change(Lockers, "leave", x.at)
          /\ {Count({"start"}), Count(Posters), Count(Lockers)} \subseteq Nat
      BY <1>0, <1>1, CountsMove
    <3> QED BY <3>1, <3>2
  <2>2. (Resetting' <=> Resetting) /\ sync_sem \in Nat /\ change_sem \in Nat
    BY <1>0, <1>1 DEF Resetting, Kinds
  <2> QED BY <1>0, <1>1, <2>1, <2>2 DEF Counts
<1>6. Known'
  BY <1>0, <1>1, <1>2, <1>3 DEF Known
<1>7. OneCopy' /\ Current'
  <2>1. Resetting' = Resetting /\ \A m \in Threads : thread'[m].req = thread[m].req
    BY <1>1, <1>2, <1>3 DEF Resetting
  <2> QED BY <1>0, <1>1, <2>1, RequestsStay
<1> QED BY <1>3, <1>4, <1>5, <1>6, <1>7 DEF ScsiIInv

\* The thread reads the next request, which is then with it, no more in the pipe.
LEMMA ThreadReadsIInv == ASSUME ScsiIInv, NEW n \in Threads, ThreadReads(n) PROVE ScsiIInv'
<1> DEFINE i0 == Head(requests)
           x == At("lock", i0)
<1>0. /\ Kinds /\ Counts /\ Known /\ Carry /\ OneCopy /\ Current /\ Fresh
      /\ thread \in [Threads -> [at : Where, req : Items]] /\ requests \in Seq(Items)
  BY DEF ScsiIInv, Kinds
<1>1. /\ thread' = [thread EXCEPT ![n] = x] /\ thread[n].at = "read"
      /\ requests # <<>> /\ requests' = Tail(requests)
      /\ UNCHANGED <<thread_running, sync_sem, change_sem, early>>
      /\ UNCHANGED <<emu, opencnt, d_request, owner, boot, astray, opens, host, inherited>>
  BY DEF ThreadReads, emuVars, driveVars, counters
<1>2. /\ i0 \in Items /\ i0 = requests[1] /\ Len(requests) \in Nat /\ Len(requests) >= 1
      /\ Tail(requests) \in Seq(Items) /\ Len(Tail(requests)) = Len(requests) - 1
      /\ \A i \in 1 .. Len(Tail(requests)) : i + 1 \in 1 .. Len(requests) /\ Tail(requests)[i] = requests[i + 1]
  BY <1>0, <1>1, Receives
<1>3. x.at = "lock" /\ x.req = i0 /\ x \in [at : Where, req : Items]
  BY <1>2 DEF At, Where
<1>4. thread[n].req = Death
  BY <1>0, <1>1 DEF Carry
<1> HIDE DEF x, i0
<1>5. /\ thread' \in [Threads -> [at : Where, req : Items]]
      /\ thread'[n] = x /\ \A m \in Threads \ {n} : thread'[m] = thread[m]
      /\ \A m \in Threads : Newest(m)' <=> Newest(m)
      /\ InTurn' /\ Carry' /\ Fresh' /\ Opened'
  BY <1>1, <1>3, ThreadMoves
<1>6. Kinds'
  BY <1>0, <1>1, <1>2, <1>5 DEF Kinds
<1>7. Counts'
  <2>1. /\ Count({"start"})' = Count({"start"}) /\ Count(Posters)' = Count(Posters)
        /\ Count(Lockers)' = Count(Lockers)
        /\ Count({"start"}) \in Nat /\ Count(Posters) \in Nat /\ Count(Lockers) \in Nat
    <3>1. /\ Change({"start"}, "read", "lock") = 0 /\ Change(Posters, "read", "lock") = 0
          /\ Change(Lockers, "read", "lock") = 0
      BY DEF Change, Posters, Lockers
    <3>2. /\ Count({"start"})' = Count({"start"}) + Change({"start"}, "read", "lock")
          /\ Count(Posters)' = Count(Posters) + Change(Posters, "read", "lock")
          /\ Count(Lockers)' = Count(Lockers) + Change(Lockers, "read", "lock")
          /\ {Count({"start"}), Count(Posters), Count(Lockers)} \subseteq Nat
      BY <1>0, <1>1, <1>3, CountsMove
    <3> QED BY <3>1, <3>2
  <2>2. (Resetting' <=> Resetting) /\ sync_sem \in Nat /\ change_sem \in Nat
    BY <1>0, <1>1 DEF Resetting, Kinds
  <2> QED BY <1>0, <1>1, <2>1, <2>2 DEF Counts
<1>8. Known'
  BY <1>0, <1>1, <1>3, <1>5 DEF Known
<1>9. /\ \A i : (Now(i)' <=> Now(i)) /\ (Wanted(i)' <=> Wanted(i))
      /\ \A i \in 1 .. Len(requests') : i + 1 \in 1 .. Len(requests) /\ i + 1 # 1 /\ requests'[i] = requests[i + 1]
      /\ 1 \in 1 .. Len(requests) /\ requests[1] = x.req
  <2>1. \A i : (Now(i)' <=> Now(i)) /\ (Wanted(i)' <=> Wanted(i))
    BY <1>1 DEF Now, Wanted, Resetting
  <2>2. \A i \in 1 .. Len(requests') : i + 1 \in 1 .. Len(requests) /\ i + 1 # 1 /\ requests'[i] = requests[i + 1]
    BY <1>1, <1>2
  <2> QED BY <2>1, <2>2, <1>2, <1>3
<1>10. OneCopy'
  <2>1. \A i, j \in 1 .. Len(requests') : i # j => i + 1 # j + 1
    BY <1>1, <1>2
  <2>2. \A i, j \in 1 .. Len(requests') :
          i # j /\ Now(requests'[i]) /\ Now(requests'[j]) => requests'[i].req # requests'[j].req
    BY <1>0, <1>9, <2>1 DEF OneCopy
  <2>3. \A m, k \in Threads :
          m # k /\ Now(thread'[m].req) /\ Now(thread'[k].req) => thread'[m].req.req # thread'[k].req.req
    BY <1>0, <1>5, <1>9 DEF OneCopy
  <2>4. \A m \in Threads, i \in 1 .. Len(requests') :
          Now(requests'[i]) /\ Now(thread'[m].req) => requests'[i].req # thread'[m].req.req
    <3> SUFFICES ASSUME NEW m \in Threads, NEW i \in 1 .. Len(requests'),
                        Now(requests'[i]), Now(thread'[m].req)
                 PROVE  requests'[i].req # thread'[m].req.req
      OBVIOUS
    <3>1. CASE m = n
      BY <1>0, <1>5, <1>9, <3>1 DEF OneCopy
    <3>2. CASE m # n
      BY <1>0, <1>5, <1>9, <3>2 DEF OneCopy
    <3> QED BY <3>1, <3>2
  <2> QED BY <1>9, <2>2, <2>3, <2>4 DEF OneCopy
<1>11. Current'
  <2>1. \A i \in 1 .. Len(requests') : Wanted(requests'[i])
    BY <1>0, <1>9 DEF Current
  <2>2. \A m \in Threads : Wanted(thread'[m].req)
    BY <1>0, <1>5, <1>9 DEF Current
  <2> QED BY <1>9, <2>1, <2>2 DEF Current
<1> QED BY <1>5, <1>6, <1>7, <1>8, <1>10, <1>11 DEF ScsiIInv

\* The thread has done the request, which is the program's again.
LEMMA ThreadWorksIInv == ASSUME ScsiIInv, NEW n \in Threads, ThreadWorks(n) PROVE ScsiIInv'
<1> DEFINE r == thread[n].req
           x == At("read", Death)
<1>0. /\ Kinds /\ Counts /\ Known /\ Carry /\ OneCopy /\ Current /\ Fresh
      /\ thread \in [Threads -> [at : Where, req : Items]]
  BY DEF ScsiIInv, Kinds
<1>1. /\ thread' = [thread EXCEPT ![n] = x] /\ thread[n].at = "work"
      /\ owner' = (IF r.boot = boot THEN [owner EXCEPT ![r.req] = "Amiga"] ELSE owner)
      /\ d_request' = [i \in ScsiSlots |-> IF d_request[i] = r.req THEN None ELSE d_request[i]]
      /\ change_sem' = change_sem + 1
      /\ UNCHANGED <<thread_running, sync_sem, requests, early>>
      /\ UNCHANGED <<emu, opencnt, boot, astray, opens, host, inherited>>
  BY DEF ThreadWorks, Release, emuVars, driveVars, counters
<1>2. x.at = "read" /\ x.req = Death /\ x \in [at : Where, req : Items]
  BY ScsiSizes DEF At, Where
<1>3. r \in Items /\ r # Death /\ r.req # None /\ r.req \in Requests
  BY <1>0, <1>1, ScsiSizes DEF Carry
<1> HIDE DEF x
<1>4. /\ thread' \in [Threads -> [at : Where, req : Items]]
      /\ thread'[n] = x /\ \A m \in Threads \ {n} : thread'[m] = thread[m]
      /\ \A m \in Threads : Newest(m)' <=> Newest(m)
      /\ InTurn' /\ Carry' /\ Fresh' /\ Opened'
  BY <1>1, <1>2, ThreadMoves
<1> HIDE DEF r
<1>5. Kinds'
  <2>1. d_request' \in [ScsiSlots -> Requests \cup {None}] /\ owner' \in [Requests -> {"Amiga", "device"}]
    BY <1>0, <1>1 DEF Kinds
  <2> QED BY <1>0, <1>1, <1>4, <2>1 DEF Kinds
<1>6. Counts'
  <2>1. /\ Count({"start"})' = Count({"start"}) /\ Count(Posters)' = Count(Posters)
        /\ Count(Lockers)' = Count(Lockers) - 1
        /\ Count({"start"}) \in Nat /\ Count(Posters) \in Nat /\ Count(Lockers) \in Nat
    <3>1. /\ Change({"start"}, "work", "read") = 0 /\ Change(Posters, "work", "read") = 0
          /\ Change(Lockers, "work", "read") = 0 - 1
      BY DEF Change, Posters, Lockers
    <3>2. /\ Count({"start"})' = Count({"start"}) + Change({"start"}, "work", "read")
          /\ Count(Posters)' = Count(Posters) + Change(Posters, "work", "read")
          /\ Count(Lockers)' = Count(Lockers) + Change(Lockers, "work", "read")
          /\ {Count({"start"}), Count(Posters), Count(Lockers)} \subseteq Nat
      BY <1>0, <1>1, <1>2, CountsMove
    <3> QED BY <3>1, <3>2
  <2>2. (Resetting' <=> Resetting) /\ sync_sem \in Nat /\ change_sem \in Nat
    BY <1>0, <1>1 DEF Resetting, Kinds
  <2> QED BY <1>0, <1>1, <2>1, <2>2 DEF Counts
<1>7. Known'
  BY <1>0, <1>1, <1>2, <1>4 DEF Known
<1>8. \A i : Now(i)' <=> Now(i)
  BY <1>1 DEF Now
<1>9. ~Now(Death)
  BY DEF Now, Death
<1>10. OneCopy'
  BY <1>0, <1>1, <1>2, <1>4, <1>8, <1>9 DEF OneCopy
<1>11. Current'
  <2>1. ASSUME NEW i, Wanted(i), Now(i) => i.req # r.req \/ r.boot # boot
        PROVE  Wanted(i)'
    <3>1. (Resetting' <=> Resetting) /\ (Now(i) => owner'[i.req] = owner[i.req])
      BY <1>0, <1>1, <2>1 DEF Resetting, Kinds
    <3> QED BY <1>1, <1>8, <2>1, <3>1 DEF Wanted
  <2>2. Now(r) <=> r.boot = boot
    BY <1>3 DEF Now
  <2>3. \A i \in 1 .. Len(requests) : Wanted(requests[i]) /\ (Now(requests[i]) => requests[i].req # r.req \/ r.boot # boot)
    BY <1>0, <2>2 DEF OneCopy, Current, r
  <2>4. \A m \in Threads \ {n} : Wanted(thread[m].req) /\ (Now(thread[m].req) => thread[m].req.req # r.req \/ r.boot # boot)
    BY <1>0, <2>2 DEF OneCopy, Current, r
  <2>5. \A i \in 1 .. Len(requests) : Wanted(requests[i])'
    BY <1>1, <2>1, <2>3
  <2>6. \A m \in Threads \ {n} : Wanted(thread[m].req)'
    BY <1>4, <2>1, <2>4
  <2>7. Wanted(Death)'
    BY <1>0, <1>1, <1>2, <1>8, <1>9, ScsiSizes DEF Wanted, Kinds
  <2> QED BY <1>1, <1>2, <1>4, <2>5, <2>6, <2>7 DEF Current
<1> QED BY <1>4, <1>5, <1>6, <1>7, <1>10, <1>11 DEF ScsiIInv

\* Whatever a thread of the unit does.
LEMMA ThreadIInv == ASSUME ScsiIInv, NEW n \in Threads, dev_thread(n) PROVE ScsiIInv'
BY ThreadStartsIInv, ThreadReadsIInv, ThreadLocksIInv, ThreadWorksIInv,
   ThreadDiesIInv, ThreadPostsIInv, ThreadLeavesIInv DEF dev_thread

-----------------------------------------------------------------------------
(* The steps of the emulator thread, and of the program for which it runs. *)

\* No request of this boot is on its way.
Past ==
    /\ \A i \in 1 .. Len(requests) : requests[i].boot <= boot /\ ~Now(requests[i])
    /\ \A n \in Threads : thread[n].req.boot <= boot /\ ~Now(thread[n].req)

\* Then nothing is asked of the requests that are.
LEMMA PastIsQuiet == Past => OneCopy /\ Current
BY DEF Past, OneCopy, Current, Wanted

\* So it is where the unit is closed, or reset, or every request is the program's.
LEMMA NothingIsNow ==
  ASSUME ScsiIInv, opencnt = 0 \/ Resetting \/ \A r \in Requests : owner[r] = "Amiga"
  PROVE  Past
<1>1. Kinds /\ Current
  BY DEF ScsiIInv
<1>2. ASSUME NEW i \in Items, Wanted(i)
      PROVE  i.boot <= boot /\ ~Now(i)
  <2>1. Now(i) => i.req \in Requests
    BY ScsiSizes DEF Now
  <2> QED BY <1>1, <1>2, <2>1 DEF Wanted, Kinds
<1>3. \A i \in 1 .. Len(requests) : requests[i] \in Items
  BY <1>1 DEF Kinds
<1>4. \A n \in Threads : thread[n].req \in Items
  BY <1>1 DEF Kinds
<1> QED BY <1>1, <1>2, <1>3, <1>4 DEF Past, Current

\* What does not change when no thread moves.
LEMMA ThreadsStay ==
  ASSUME ScsiIInv, thread' = thread
  PROVE  /\ InTurn' /\ Carry' /\ \A n \in Threads : Newest(n)' <=> Newest(n)
         /\ {Count({"start"}), Count(Posters), Count(Lockers)} \subseteq Nat
         /\ Count({"start"})' = Count({"start"}) /\ Count(Posters)' = Count(Posters)
         /\ Count(Lockers)' = Count(Lockers)
<1>1. InTurn' /\ Carry' /\ \A n \in Threads : Newest(n)' <=> Newest(n)
  BY DEF ScsiIInv, InTurn, Carry, Newest
<1>2. Count({"start"}) \in Nat /\ Count({"start"})' = Count({"start"})
  BY MovesNot
<1>3. Count(Posters) \in Nat /\ Count(Posters)' = Count(Posters)
  BY MovesNot
<1>4. Count(Lockers) \in Nat /\ Count(Lockers)' = Count(Lockers)
  BY MovesNot
<1> QED BY <1>1, <1>2, <1>3, <1>4

\* Requests that are wanted and stay so.
LEMMA RequestsWait ==
  ASSUME ScsiIInv, UNCHANGED <<requests, thread, boot>>,
         \A i \in Items : Wanted(i) => Wanted(i)'
  PROVE  OneCopy' /\ Current'
<1>1. Kinds /\ OneCopy /\ Current
  BY DEF ScsiIInv
<1>2. \A i : Now(i)' <=> Now(i)
  BY DEF Now
<1>3. \A i \in 1 .. Len(requests) : requests[i] \in Items
  BY <1>1 DEF Kinds
<1>4. \A n \in Threads : thread[n].req \in Items
  BY <1>1 DEF Kinds
<1> QED BY <1>1, <1>2, <1>3, <1>4 DEF OneCopy, Current

\* An open that succeeds does so on the host's word, or on that of an earlier one.
LEMMA OpensOnAWord == ASSUME OpensDrive, scsi' PROVE host' \/ inherited'
BY Zenon DEF OpensDrive

\* A unit that is opened for the first time, in vain.
LEMMA OpenFailsIInv == ASSUME ScsiIInv, OpenFails PROVE ScsiIInv'
<1>1. Kinds /\ Counts /\ Fresh /\ Known /\ MaxOpens \in Nat
  BY ScsiSizes DEF ScsiIInv
<1>2. /\ emu.at = "cpu" /\ opencnt = 0 /\ opens < MaxOpens /\ opens' = opens + 1
      /\ UNCHANGED <<thread, emu, opencnt, d_request, thread_running, sync_sem, requests>>
      /\ UNCHANGED <<change_sem, owner, boot, early, astray>>
  BY DEF OpenFails, CountOpen, devVars
<1>3. /\ InTurn' /\ Carry' /\ \A n \in Threads : Newest(n)' <=> Newest(n)
      /\ {Count({"start"}), Count(Posters), Count(Lockers)} \subseteq Nat
      /\ Count({"start"})' = Count({"start"}) /\ Count(Posters)' = Count(Posters)
      /\ Count(Lockers)' = Count(Lockers)
  BY <1>2, ThreadsStay
<1>4. Kinds'
  BY <1>1, <1>2 DEF Kinds
<1>5. Counts'
  <2>1. (Resetting' <=> Resetting) /\ opens \in Nat /\ {sync_sem, change_sem, boot} \subseteq Nat
    BY <1>1, <1>2 DEF Resetting, Kinds
  <2> QED BY <1>1, <1>2, <1>3, <2>1 DEF Counts
<1>6. Fresh' /\ Known' /\ Opened'
  BY <1>1, <1>2, <1>3 DEF Fresh, Known, Opened
<1>7. OneCopy' /\ Current'
  <2>1. \A i \in Items : Wanted(i) => Wanted(i)'
    BY <1>2 DEF Wanted, Now, Resetting
  <2> QED BY <1>2, <2>1, RequestsWait
<1> QED BY <1>3, <1>4, <1>5, <1>6, <1>7 DEF ScsiIInv

\* A unit that is opened for the first time, while its thread runs still.
LEMMA OpenFindsIInv == ASSUME ScsiIInv, OpenFinds PROVE ScsiIInv'
<1>1. Kinds /\ Counts /\ Fresh /\ Known /\ MaxOpens \in Nat
  BY ScsiSizes DEF ScsiIInv
<1>2. /\ emu.at = "cpu" /\ opencnt = 0 /\ opens < MaxOpens /\ opens' = opens + 1 /\ opencnt' = 1
      /\ UNCHANGED <<thread, emu, d_request, thread_running, sync_sem, requests>>
      /\ UNCHANGED <<change_sem, owner, boot, early, astray>>
  BY DEF OpenFinds, CountOpen
<1>3. /\ InTurn' /\ Carry' /\ \A n \in Threads : Newest(n)' <=> Newest(n)
      /\ {Count({"start"}), Count(Posters), Count(Lockers)} \subseteq Nat
      /\ Count({"start"})' = Count({"start"}) /\ Count(Posters)' = Count(Posters)
      /\ Count(Lockers)' = Count(Lockers)
  BY <1>2, ThreadsStay
<1>4. Kinds'
  BY <1>1, <1>2 DEF Kinds
<1>5. Counts'
  <2>1. (Resetting' <=> Resetting) /\ opens \in Nat /\ {sync_sem, change_sem, boot} \subseteq Nat
    BY <1>1, <1>2 DEF Resetting, Kinds
  <2> QED BY <1>1, <1>2, <1>3, <2>1 DEF Counts
<1>6. Fresh' /\ Known'
  BY <1>1, <1>2, <1>3 DEF Fresh, Known
<1>7. Opened'
  BY OpensOnAWord DEF OpenFinds, Opened
<1>8. OneCopy' /\ Current'
  <2>1. Past
    BY <1>2, NothingIsNow
  <2>2. Past'
    BY <1>2, <2>1 DEF Past, Now
  <2> QED BY <2>2, PastIsQuiet, PTL
<1> QED BY <1>3, <1>4, <1>5, <1>6, <1>7, <1>8 DEF ScsiIInv

\* One more opens the unit.
LEMMA OpenAgainIInv == ASSUME ScsiIInv, OpenAgain PROVE ScsiIInv'
<1>1. Kinds /\ Counts /\ Fresh /\ Known /\ Opened /\ MaxOpens \in Nat
  BY ScsiSizes DEF ScsiIInv
<1>2. /\ emu.at = "cpu" /\ opencnt > 0 /\ opens < MaxOpens /\ opens' = opens + 1
      /\ opencnt' = opencnt + 1
      /\ UNCHANGED <<thread, emu, d_request, thread_running, sync_sem, requests>>
      /\ UNCHANGED <<change_sem, owner, boot, early, astray, host, inherited>>
  BY DEF OpenAgain, CountOpen, driveVars
<1>3. /\ InTurn' /\ Carry' /\ \A n \in Threads : Newest(n)' <=> Newest(n)
      /\ {Count({"start"}), Count(Posters), Count(Lockers)} \subseteq Nat
      /\ Count({"start"})' = Count({"start"}) /\ Count(Posters)' = Count(Posters)
      /\ Count(Lockers)' = Count(Lockers)
  BY <1>2, ThreadsStay
<1>4. Kinds'
  BY <1>1, <1>2 DEF Kinds
<1>5. Counts'
  <2>1. (Resetting' <=> Resetting) /\ {opens, opencnt, sync_sem, change_sem, boot} \subseteq Nat
    BY <1>1, <1>2 DEF Resetting, Kinds
  <2> QED BY <1>1, <1>2, <1>3, <2>1 DEF Counts
<1>6. Fresh' /\ Known' /\ Opened'
  BY <1>1, <1>2, <1>3 DEF Fresh, Known, Opened
<1>7. OneCopy' /\ Current'
  <2>1. opencnt \in Nat /\ (Resetting' <=> Resetting)
    BY <1>1, <1>2 DEF Resetting, Kinds
  <2>2. \A i \in Items : Wanted(i) => Wanted(i)'
    BY <1>2, <2>1 DEF Wanted, Now
  <2> QED BY <1>2, <2>2, RequestsWait
<1> QED BY <1>3, <1>4, <1>5, <1>6, <1>7 DEF ScsiIInv

\* The first open starts a thread, and waits for it.
LEMMA StartThreadIInv == ASSUME ScsiIInv, start_thread PROVE ScsiIInv'
<1>1. /\ Kinds /\ Counts /\ InTurn /\ Known /\ Carry /\ MaxOpens \in Nat
      /\ thread \in [Threads -> [at : Where, req : Items]]
  BY ScsiSizes DEF ScsiIInv, Kinds
<1>2. /\ emu.at = "cpu" /\ emu' = At("open", None) /\ emu'.at = "open"
      /\ opencnt = 0 /\ thread_running = 0 /\ opens < MaxOpens /\ opens' = opens + 1
      /\ requests' = <<>> /\ sync_sem' = 0
      /\ UNCHANGED <<opencnt, d_request, thread_running, change_sem, owner, boot, early, astray>>
  BY DEF start_thread, Emu, At, CountOpen
<1> DEFINE x == At("start", Death)
<1>3. x.at = "start" /\ x.req = Death /\ x \in [at : Where, req : Items]
  BY ScsiSizes DEF At, Where
<1>4. PICK n \in Threads : /\ \A m \in Threads : thread[m].at = "none" => n <= m
                           /\ thread[n].at = "none" /\ thread' = [thread EXCEPT ![n] = x]
  BY DEF start_thread
<1> HIDE DEF x
<1>5. /\ thread' \in [Threads -> [at : Where, req : Items]]
      /\ thread'[n] = x /\ \A m \in Threads \ {n} : thread'[m] = thread[m]
  BY <1>1, <1>3, <1>4
<1>6. Threads \subseteq Nat
  BY DEF Threads
<1>7. InTurn'
  <2> SUFFICES ASSUME NEW k \in Threads, NEW m \in Threads, k < m, thread'[k].at = "none"
               PROVE  thread'[m].at = "none"
    BY DEF InTurn
  <2>1. k # n /\ thread[k].at = "none"
    BY <1>3, <1>5
  <2>2. m # n
    BY <1>4, <1>6, <2>1
  <2>3. thread[m].at = "none"
    BY <1>1, <2>1 DEF InTurn
  <2> QED BY <1>5, <2>2, <2>3
<1>8. Newest(n)'
  <2>1. \A m \in Threads : n < m => thread[m].at = "none" /\ m # n
    BY <1>1, <1>4, <1>6 DEF InTurn
  <2> QED BY <1>3, <1>5, <2>1 DEF Newest
<1>9. Kinds'
  <2>1. emu' \in [at : EmuPlaces, req : Requests \cup {None}]
    BY <1>2 DEF At, EmuPlaces
  <2> QED BY <1>1, <1>2, <1>5, <2>1 DEF Kinds
<1>10. Counts'
  <2>1. /\ Count({"start"})' = Count({"start"}) + 1 /\ Count(Posters)' = Count(Posters) + 1
        /\ Count(Lockers)' = Count(Lockers)
        /\ Count({"start"}) \in Nat /\ Count(Posters) \in Nat /\ Count(Lockers) \in Nat
    <3>1. /\ Change({"start"}, "none", "start") = 1 /\ Change(Posters, "none", "start") = 1
          /\ Change(Lockers, "none", "start") = 0
      BY DEF Change, Posters, Lockers
    <3>2. /\ Count({"start"})' = Count({"start"}) + Change({"start"}, "none", "start")
          /\ Count(Posters)' = Count(Posters) + Change(Posters, "none", "start")
          /\ Count(Lockers)' = Count(Lockers) + Change(Lockers, "none", "start")
          /\ {Count({"start"}), Count(Posters), Count(Lockers)} \subseteq Nat
      BY <1>1, <1>3, <1>4, CountsMove
    <3> QED BY <3>1, <3>2
  <2>2. ~Resetting /\ ~Resetting' /\ {opens, sync_sem, change_sem, boot} \subseteq Nat
    BY <1>1, <1>2 DEF Resetting, Kinds
  <2> QED BY <1>1, <1>2, <2>1, <2>2 DEF Counts
<1>11. Fresh'
  BY <1>2, <1>3, <1>5, <1>8 DEF Fresh
<1>12. Known'
  <2> SUFFICES ASSUME ~early, astray = {} PROVE Known'
    BY <1>2 DEF Known
  <2>1. \A m \in Threads : thread[m].at \notin {"start", "read", "lock", "work", "die"}
    BY <1>1, <1>2 DEF Known
  <2> QED BY <1>2, <1>3, <1>5, <1>8, <2>1 DEF Known
<1>13. Carry'
  BY <1>1, <1>3, <1>5 DEF Carry
<1>14. OneCopy' /\ Current'
  <2>1. Past
    BY <1>2, NothingIsNow
  <2>2. Death.boot <= boot /\ ~Now(Death)
    BY <1>1, ScsiSizes DEF Kinds, Now
  <2>3. Past'
    BY <1>2, <1>3, <1>5, <2>1, <2>2 DEF Past, Now
  <2> QED BY <2>3, PastIsQuiet, PTL
<1>15. Opened'
  BY OpensOnAWord DEF start_thread, Opened
<1> QED BY <1>7, <1>9, <1>10, <1>11, <1>12, <1>13, <1>14, <1>15 DEF ScsiIInv

\* The thread has said that it runs, and the unit is open.
LEMMA OpenDoneIInv == ASSUME ScsiIInv, OpenDone PROVE ScsiIInv'
<1>1. Kinds /\ Counts /\ Fresh /\ Known /\ Opened
  BY DEF ScsiIInv
<1>2. /\ emu.at = "open" /\ emu' = At("cpu", None) /\ emu'.at = "cpu"
      /\ sync_sem > 0 /\ sync_sem' = sync_sem - 1 /\ opencnt = 0 /\ opencnt' = 1
      /\ UNCHANGED <<thread, d_request, thread_running, requests, opens>>
      /\ UNCHANGED <<change_sem, owner, boot, early, astray, host, inherited>>
  BY <1>1 DEF OpenDone, Emu, At, driveVars, counters, Counts
<1>3. /\ InTurn' /\ Carry' /\ \A n \in Threads : Newest(n)' <=> Newest(n)
      /\ {Count({"start"}), Count(Posters), Count(Lockers)} \subseteq Nat
      /\ Count({"start"})' = Count({"start"}) /\ Count(Posters)' = Count(Posters)
      /\ Count(Lockers)' = Count(Lockers)
  BY <1>2, ThreadsStay
<1>4. Kinds'
  <2>1. emu' \in [at : EmuPlaces, req : Requests \cup {None}]
    BY <1>2 DEF At, EmuPlaces
  <2> QED BY <1>1, <1>2, <2>1 DEF Kinds
<1>5. Counts'
  <2>1. ~Resetting /\ ~Resetting' /\ {opens, sync_sem, change_sem, boot} \subseteq Nat
    BY <1>1, <1>2 DEF Resetting, Kinds
  <2> QED BY <1>1, <1>2, <1>3, <2>1 DEF Counts
<1>6. Fresh' /\ Opened'
  BY <1>1, <1>2 DEF Fresh, Opened
<1>7. Known'
  <2> SUFFICES ASSUME ~early, astray = {} PROVE Known'
    BY <1>2 DEF Known
  <2>1. sync_sem' = 0
    BY <1>1, <1>2 DEF Known, Kinds
  <2>2. \A n \in Threads : thread[n].at # "start"
    BY <1>1, <1>2 DEF Known
  <2> QED BY <1>1, <1>2, <1>3, <2>1, <2>2 DEF Known
<1>8. OneCopy' /\ Current'
  <2>1. Past
    BY <1>2, NothingIsNow
  <2>2. Past'
    BY <1>2, <2>1 DEF Past, Now
  <2> QED BY <2>2, PastIsQuiet, PTL
<1> QED BY <1>3, <1>4, <1>5, <1>6, <1>7, <1>8 DEF ScsiIInv

\* A close: the last one sends the thread its death, and no request is out.
LEMMA CloseIInv == ASSUME ScsiIInv, dev_close PROVE ScsiIInv'
<1>1. Kinds /\ Counts /\ Fresh /\ Known /\ Opened /\ requests \in Seq(Items)
  BY DEF ScsiIInv, Kinds
<1>2. /\ emu.at = "cpu" /\ opencnt > 0 /\ opencnt' = opencnt - 1
      /\ opencnt = 1 => /\ \A r \in Requests : owner[r] = "Amiga"
                        /\ requests' = Append(requests, Death)
      /\ opencnt # 1 => UNCHANGED <<host, requests>>
      /\ UNCHANGED <<thread, emu, d_request, thread_running, sync_sem, opens>>
      /\ UNCHANGED <<change_sem, owner, boot, early, astray, inherited>>
  BY DEF dev_close, counters
<1>3. /\ InTurn' /\ Carry' /\ \A n \in Threads : Newest(n)' <=> Newest(n)
      /\ {Count({"start"}), Count(Posters), Count(Lockers)} \subseteq Nat
      /\ Count({"start"})' = Count({"start"}) /\ Count(Posters)' = Count(Posters)
      /\ Count(Lockers)' = Count(Lockers)
  BY <1>2, ThreadsStay
<1>4. /\ Append(requests, Death) \in Seq(Items) /\ Len(requests) \in Nat
      /\ Len(Append(requests, Death)) = Len(requests) + 1
      /\ Append(requests, Death)[Len(requests) + 1] = Death
      /\ \A i \in 1 .. Len(requests) : Append(requests, Death)[i] = requests[i]
  BY <1>1, Sends, ScsiSizes
<1>5. opencnt \in Nat /\ opencnt' \in Nat
  <2>1. opencnt \in Nat
    BY <1>1 DEF Kinds
  <2> QED BY <1>2, <2>1
<1>6. Kinds'
  BY <1>1, <1>2, <1>4, <1>5 DEF Kinds
<1>7. Counts'
  <2>1. (Resetting' <=> Resetting) /\ {opens, sync_sem, change_sem, boot} \subseteq Nat
    BY <1>1, <1>2 DEF Resetting, Kinds
  <2> QED BY <1>1, <1>2, <1>3, <1>5, <2>1 DEF Counts
<1>8. Fresh' /\ Known' /\ Opened'
  BY <1>1, <1>2, <1>3, <1>5 DEF Fresh, Known, Opened
<1>9. CASE opencnt = 1
  <2>1. Past
    BY <1>2, <1>9, NothingIsNow
  <2>2. Death.boot <= boot /\ ~Now(Death)
    BY <1>1, ScsiSizes DEF Kinds, Now
  <2>3. Past'
    BY <1>2, <1>4, <1>9, <2>1, <2>2 DEF Past, Now
  <2>4. OneCopy' /\ Current'
    BY <2>3, PastIsQuiet, PTL
  <2> QED BY <1>3, <1>6, <1>7, <1>8, <2>4 DEF ScsiIInv
<1>10. CASE opencnt # 1
  <2>1. (Resetting' <=> Resetting) /\ opencnt' > 0
    BY <1>2, <1>5, <1>10 DEF Resetting
  <2>2. \A i \in Items : Wanted(i) => Wanted(i)'
    BY <1>2, <2>1 DEF Wanted, Now
  <2>3. OneCopy' /\ Current'
    BY <1>2, <1>10, <2>2, RequestsWait
  <2> QED BY <1>3, <1>6, <1>7, <1>8, <2>3 DEF ScsiIInv
<1> QED BY <1>9, <1>10

\* A request is sent: the program had it, so no copy of it is out.
LEMMA BeginIOIInv == ASSUME ScsiIInv, NEW r \in Requests, dev_beginio(r) PROVE ScsiIInv'
<1> DEFINE y == [req |-> r, boot |-> boot]
<1>1. Kinds /\ Counts /\ Fresh /\ Known /\ Opened /\ OneCopy /\ Current /\ requests \in Seq(Items)
  BY DEF ScsiIInv, Kinds
<1>2. /\ emu.at = "cpu" /\ opencnt > 0 /\ owner[r] = "Amiga"
      /\ owner' = [owner EXCEPT ![r] = "device"] /\ requests' = Append(requests, y)
      /\ UNCHANGED <<thread, emu, opencnt, thread_running, sync_sem, opens>>
      /\ UNCHANGED <<change_sem, boot, early, astray, host, inherited>>
  BY DEF dev_beginio, driveVars
<1>3. d_request' \in [ScsiSlots -> Requests \cup {None}]
  <2> DEFINE k == First(Holding(None))
  <2>1. d_request' = d_request \/ d_request' = [d_request EXCEPT ![k] = r]
    BY DEF dev_beginio
  <2>2. d_request \in [ScsiSlots -> Requests \cup {None}]
    BY <1>1 DEF Kinds
  <2> HIDE DEF k
  <2> QED BY <2>1, <2>2
<1>4. y \in Items /\ y.req = r /\ y.boot = boot /\ r # None
  BY <1>1, ScsiSizes DEF Kinds, Items
<1>5. /\ InTurn' /\ Carry' /\ \A n \in Threads : Newest(n)' <=> Newest(n)
      /\ {Count({"start"}), Count(Posters), Count(Lockers)} \subseteq Nat
      /\ Count({"start"})' = Count({"start"}) /\ Count(Posters)' = Count(Posters)
      /\ Count(Lockers)' = Count(Lockers)
  BY <1>2, ThreadsStay
<1> HIDE DEF y
<1>6. /\ requests' \in Seq(Items) /\ Len(requests) \in Nat /\ Len(requests') = Len(requests) + 1
      /\ requests'[Len(requests) + 1] = y
      /\ \A i \in 1 .. Len(requests) : requests'[i] = requests[i]
  BY <1>1, <1>2, <1>4, Sends
<1>7. Kinds'
  <2>1. owner' \in [Requests -> {"Amiga", "device"}]
    BY <1>1, <1>2 DEF Kinds
  <2> QED BY <1>1, <1>2, <1>3, <1>6, <2>1 DEF Kinds
<1>8. Counts'
  <2>1. (Resetting' <=> Resetting) /\ {opens, opencnt, sync_sem, change_sem, boot} \subseteq Nat
    BY <1>1, <1>2 DEF Resetting, Kinds
  <2> QED BY <1>1, <1>2, <1>5, <2>1 DEF Counts
<1>9. Fresh' /\ Known' /\ Opened'
  BY <1>1, <1>2, <1>5 DEF Fresh, Known, Opened
<1>10. /\ \A i : Now(i)' <=> Now(i)
       /\ \A i : Wanted(i) => Wanted(i)' /\ (Now(i) => i.req # r)
  <2>1. (Resetting' <=> Resetting) /\ ~Resetting /\ \A i : Now(i)' <=> Now(i)
    BY <1>2 DEF Resetting, Now
  <2>2. \A i : Wanted(i) /\ Now(i) => i.req # r
    BY <1>2 DEF Wanted
  <2>3. \A q : owner[q] = "device" /\ q # r => owner'[q] = "device"
    <3>1. DOMAIN owner = Requests
      BY <1>1 DEF Kinds
    <3> QED BY <1>2, <3>1
  <2>4. \A i : Wanted(i) => Wanted(i)'
    BY <1>2, <2>1, <2>2, <2>3 DEF Wanted
  <2> QED BY <2>1, <2>2, <2>4
<1>11. Now(y) /\ \A i : i = y => Wanted(i)'
  <2>1. boot \in Nat /\ owner'[r] = "device"
    BY <1>1, <1>2 DEF Kinds
  <2> QED BY <1>2, <1>4, <2>1 DEF Wanted, Now, Resetting
<1>12. OneCopy'
  BY <1>1, <1>2, <1>4, <1>6, <1>10, <1>11 DEF OneCopy, Current
<1>13. Current'
  BY <1>1, <1>2, <1>6, <1>10, <1>11 DEF Current
<1> QED BY <1>5, <1>7, <1>8, <1>9, <1>12, <1>13 DEF ScsiIInv

\* An abort waits, and waits no more, for its request.
LEMMA AbortIInv ==
  ASSUME ScsiIInv, AbortDone \/ \E r \in Requests : dev_abortio(r) PROVE ScsiIInv'
<1>1. Kinds /\ Counts /\ Fresh /\ Known /\ Opened
  BY DEF ScsiIInv
<1>2. /\ emu.at \in {"cpu", "abort"} /\ emu'.at \in {"cpu", "abort"}
      /\ emu' \in [at : EmuPlaces, req : Requests \cup {None}]
      /\ UNCHANGED <<thread, opencnt, d_request, thread_running, sync_sem, requests, opens>>
      /\ UNCHANGED <<change_sem, owner, boot, early, astray, host, inherited>>
  BY DEF AbortDone, dev_abortio, Emu, At, EmuPlaces, devVars, driveVars, counters
<1>3. /\ InTurn' /\ Carry' /\ \A n \in Threads : Newest(n)' <=> Newest(n)
      /\ {Count({"start"}), Count(Posters), Count(Lockers)} \subseteq Nat
      /\ Count({"start"})' = Count({"start"}) /\ Count(Posters)' = Count(Posters)
      /\ Count(Lockers)' = Count(Lockers)
  BY <1>2, ThreadsStay
<1>4. Kinds'
  BY <1>1, <1>2 DEF Kinds
<1>5. (Resetting' <=> Resetting) /\ {opens, opencnt, sync_sem, change_sem, boot} \subseteq Nat
  BY <1>1, <1>2 DEF Resetting, Kinds
<1>6. Counts' /\ Fresh' /\ Known' /\ Opened'
  BY <1>1, <1>2, <1>3, <1>5 DEF Counts, Fresh, Known, Opened
<1>7. OneCopy' /\ Current'
  <2>1. \A i \in Items : Wanted(i) => Wanted(i)'
    BY <1>2, <1>5 DEF Wanted, Now
  <2> QED BY <1>2, <2>1, RequestsWait
<1> QED BY <1>3, <1>4, <1>6, <1>7 DEF ScsiIInv

\* A reset: every request that is out is one of an earlier boot.
LEMMA ResetIInv == ASSUME ScsiIInv, Reset PROVE ScsiIInv'
<1>1. Kinds /\ Counts /\ Fresh /\ Known /\ Opened /\ MaxResets \in Nat
  BY ScsiSizes DEF ScsiIInv
<1>2. /\ emu.at = "cpu" /\ emu'.at \in {"clear", "exit"} /\ boot < MaxResets /\ boot' = boot + 1
      /\ emu' \in [at : EmuPlaces, req : Requests \cup {None}]
      /\ owner' \in [Requests -> {"Amiga", "device"}]
      /\ UNCHANGED <<thread, opencnt, d_request, thread_running, sync_sem, requests, opens>>
      /\ UNCHANGED <<change_sem, early, astray, host, inherited>>
  <2>1. d_request[Unit] \in Requests \cup {None}
    BY <1>1, ScsiAssumption DEF Kinds, ScsiAssumption, ScsiSlots
  <2> QED BY <2>1 DEF Reset, At, EmuPlaces, devVars, driveVars, counters
<1>3. /\ InTurn' /\ Carry' /\ \A n \in Threads : Newest(n)' <=> Newest(n)
      /\ {Count({"start"}), Count(Posters), Count(Lockers)} \subseteq Nat
      /\ Count({"start"})' = Count({"start"}) /\ Count(Posters)' = Count(Posters)
      /\ Count(Lockers)' = Count(Lockers)
  BY <1>2, ThreadsStay
<1>4. {opens, opencnt, sync_sem, change_sem, boot} \subseteq Nat /\ boot' \in 0 .. MaxResets
  BY <1>1, <1>2 DEF Kinds
<1>5. Kinds'
  BY <1>1, <1>2, <1>4 DEF Kinds
<1>6. Counts'
  <2>1. ~Resetting /\ Resetting'
    BY <1>2 DEF Resetting
  <2> QED BY <1>1, <1>2, <1>3, <1>4, <2>1 DEF Counts
<1>7. Fresh' /\ Known' /\ Opened'
  BY <1>1, <1>2, <1>3 DEF Fresh, Known, Opened
<1>8. OneCopy' /\ Current'
  <2>1. ASSUME NEW i \in Items, Wanted(i)
        PROVE  i.boot <= boot' /\ i.boot # boot'
    BY <1>2, <1>4, <2>1, ScsiSizes DEF Wanted
  <2>2. \A i \in 1 .. Len(requests) : requests[i] \in Items /\ Wanted(requests[i])
    BY <1>1 DEF Kinds, ScsiIInv, Current
  <2>3. \A n \in Threads : thread[n].req \in Items /\ Wanted(thread[n].req)
    BY <1>1 DEF Kinds, ScsiIInv, Current
  <2>4. Past'
    BY <1>2, <2>1, <2>2, <2>3 DEF Past, Now
  <2> QED BY <2>4, PastIsQuiet, PTL
<1> QED BY <1>3, <1>5, <1>6, <1>7, <1>8 DEF ScsiIInv

\* The reset sends the thread its death.
LEMMA ExitKillsIInv == ASSUME ScsiIInv, ExitKills PROVE ScsiIInv'
<1>1. Kinds /\ Counts /\ Fresh /\ Known /\ Opened /\ requests \in Seq(Items)
  BY DEF ScsiIInv, Kinds
<1>2. /\ emu.at = "exit" /\ emu'.at = "exit_wait" /\ requests' = Append(requests, Death)
      /\ emu' \in [at : EmuPlaces, req : Requests \cup {None}]
      /\ UNCHANGED <<thread, opencnt, d_request, thread_running, sync_sem, opens>>
      /\ UNCHANGED <<change_sem, owner, boot, early, astray, host, inherited>>
  BY DEF ExitKills, Emu, At, EmuPlaces, driveVars, counters
<1>3. /\ InTurn' /\ Carry' /\ \A n \in Threads : Newest(n)' <=> Newest(n)
      /\ {Count({"start"}), Count(Posters), Count(Lockers)} \subseteq Nat
      /\ Count({"start"})' = Count({"start"}) /\ Count(Posters)' = Count(Posters)
      /\ Count(Lockers)' = Count(Lockers)
  BY <1>2, ThreadsStay
<1>4. /\ Append(requests, Death) \in Seq(Items) /\ Len(requests) \in Nat
      /\ Len(Append(requests, Death)) = Len(requests) + 1
      /\ Append(requests, Death)[Len(requests) + 1] = Death
      /\ \A i \in 1 .. Len(requests) : Append(requests, Death)[i] = requests[i]
  BY <1>1, Sends, ScsiSizes
<1>5. Kinds'
  BY <1>1, <1>2, <1>4 DEF Kinds
<1>6. Resetting /\ Resetting' /\ {opens, opencnt, sync_sem, change_sem, boot} \subseteq Nat
  BY <1>1, <1>2 DEF Resetting, Kinds
<1>7. Counts' /\ Fresh' /\ Known' /\ Opened'
  BY <1>1, <1>2, <1>3, <1>6 DEF Counts, Fresh, Known, Opened
<1>8. OneCopy' /\ Current'
  <2>1. Past
    BY <1>6, NothingIsNow
  <2>2. Death.boot <= boot /\ ~Now(Death)
    BY <1>6, ScsiSizes DEF Now
  <2>3. Past'
    BY <1>2, <1>4, <2>1, <2>2 DEF Past, Now
  <2> QED BY <2>3, PastIsQuiet, PTL
<1> QED BY <1>3, <1>5, <1>7, <1>8 DEF ScsiIInv

\* The semaphore says to the reset that the thread is dead.
LEMMA ExitDoneIInv == ASSUME ScsiIInv, ExitDone PROVE ScsiIInv'
<1>1. Kinds /\ Counts /\ Fresh /\ Known /\ Opened
  BY DEF ScsiIInv
<1>2. /\ emu.at = "exit_wait" /\ emu'.at = "killed" /\ opencnt' = 0
      /\ sync_sem > 0 /\ sync_sem' = sync_sem - 1
      /\ emu' \in [at : EmuPlaces, req : Requests \cup {None}]
      /\ UNCHANGED <<thread, d_request, thread_running, requests, opens>>
      /\ UNCHANGED <<change_sem, owner, boot, early, astray>>
  BY DEF ExitDone, Emu, At, EmuPlaces, counters
<1>3. /\ InTurn' /\ Carry' /\ \A n \in Threads : Newest(n)' <=> Newest(n)
      /\ {Count({"start"}), Count(Posters), Count(Lockers)} \subseteq Nat
      /\ Count({"start"})' = Count({"start"}) /\ Count(Posters)' = Count(Posters)
      /\ Count(Lockers)' = Count(Lockers)
  BY <1>2, ThreadsStay
<1>4. {opens, sync_sem, sync_sem', change_sem, boot} \subseteq Nat
  <2>1. {opens, sync_sem, change_sem, boot} \subseteq Nat
    BY <1>1 DEF Kinds
  <2> QED BY <1>2, <2>1
<1>5. Kinds'
  BY <1>1, <1>2, <1>4 DEF Kinds
<1>6. Resetting /\ Resetting'
  BY <1>2 DEF Resetting
<1>7. Counts' /\ Fresh' /\ Known' /\ Opened'
  BY <1>1, <1>2, <1>3, <1>4, <1>6 DEF Counts, Fresh, Known, Opened
<1>8. OneCopy' /\ Current'
  <2>1. Past
    BY <1>6, NothingIsNow
  <2>2. Past'
    BY <1>2, <2>1 DEF Past, Now
  <2> QED BY <2>2, PastIsQuiet, PTL
<1> QED BY <1>3, <1>5, <1>7, <1>8 DEF ScsiIInv

\* All is made anew, over whatever the threads are doing.
LEMMA ClearIInv == ASSUME ScsiIInv, Clear PROVE ScsiIInv'
<1>1. Kinds /\ Counts /\ Fresh /\ Known
  BY DEF ScsiIInv
<1>2. /\ emu.at \in {"clear", "killed"} /\ emu'.at = "cpu"
      /\ emu' \in [at : EmuPlaces, req : Requests \cup {None}]
      /\ d_request' \in [ScsiSlots -> Requests \cup {None}]
      /\ thread_running' = 0 /\ sync_sem' = 0 /\ requests' = <<>> /\ opencnt' = 0 /\ change_sem' = 1
      /\ astray' = {n \in Threads : thread[n].at \notin {"none", "gone"}}
      /\ UNCHANGED <<thread, owner, boot, opens>>
  BY DEF Clear, Emu, At, EmuPlaces, counters
<1>3. /\ InTurn' /\ Carry' /\ \A n \in Threads : Newest(n)' <=> Newest(n)
      /\ {Count({"start"}), Count(Posters), Count(Lockers)} \subseteq Nat
      /\ Count({"start"})' = Count({"start"}) /\ Count(Posters)' = Count(Posters)
      /\ Count(Lockers)' = Count(Lockers)
  BY <1>2, ThreadsStay
<1>4. Resetting /\ ~Resetting' /\ {opens, sync_sem, change_sem, boot} \subseteq Nat
  BY <1>1, <1>2 DEF Resetting, Kinds
<1>5. Kinds'
  BY <1>1, <1>2 DEF Kinds
<1>6. Counts'
  BY <1>1, <1>2, <1>3, <1>4 DEF Counts
<1>7. Fresh' /\ Known' /\ Opened'
  BY <1>2 DEF Fresh, Known, Opened
<1>8. OneCopy' /\ Current'
  <2>1. Past
    BY <1>4, NothingIsNow
  <2>2. Past'
    BY <1>2, <2>1 DEF Past, Now
  <2> QED BY <2>2, PastIsQuiet, PTL
<1> QED BY <1>3, <1>5, <1>6, <1>7, <1>8 DEF ScsiIInv

-----------------------------------------------------------------------------
(* The unit.                                                               *)

\* At first there is no thread, and nothing to do.
LEMMA ScsiStarts == ScsiInit => ScsiIInv
<1> SUFFICES ASSUME ScsiInit PROVE ScsiIInv
  OBVIOUS
<1>1. \A n \in Threads : thread[n] = At("none", Death)
  BY DEF ScsiInit
<1>2. At("none", Death).at = "none" /\ At("none", Death).req = Death
      /\ At("none", Death) \in [at : Where, req : Items]
  BY ScsiSizes DEF At, Where
<1>3. Kinds
  BY <1>2, ScsiSizes DEF ScsiInit, Kinds, At, EmuPlaces
<1>4. emu.at = "cpu" /\ opencnt = 0 /\ sync_sem = 0 /\ requests = <<>> /\ opens = 0 /\ boot = 0
      /\ change_sem = 1
  BY DEF ScsiInit, At
<1>5. Count({"start"}) = 0 /\ Count(Posters) = 0 /\ Count(Lockers) = 0
  <2>1. \A n \in Threads : thread[n].at \notin {"start"} \cup Posters \cup Lockers
    BY <1>1, <1>2 DEF Posters, Lockers
  <2>2. /\ {n \in Threads : thread[n].at \in {"start"}} = {}
        /\ {n \in Threads : thread[n].at \in Posters} = {}
        /\ {n \in Threads : thread[n].at \in Lockers} = {}
    BY <2>1
  <2> QED BY <2>2, FS_EmptySet DEF Count
<1>6. Counts
  BY <1>4, <1>5 DEF Counts, Resetting
<1>7. InTurn /\ Fresh /\ Known /\ Carry /\ Opened
  BY <1>1, <1>2, <1>4 DEF InTurn, Fresh, Known, Newest, Carry, Opened
<1>8. OneCopy /\ Current
  <2>1. Past
    BY <1>1, <1>2, <1>4, ScsiSizes DEF Past, Now
  <2> QED BY <2>1, PastIsQuiet
<1> QED BY <1>3, <1>6, <1>7, <1>8 DEF ScsiIInv

\* Every step keeps it so.
LEMMA ScsiSteps == ScsiIInv /\ [ScsiNext]_scsiVars => ScsiIInv'
<1> SUFFICES ASSUME ScsiIInv, [ScsiNext]_scsiVars PROVE ScsiIInv'
  OBVIOUS
<1>1. CASE Emulator
  BY <1>1, OpenDoneIInv, AbortIInv, ExitKillsIInv, ExitDoneIInv, ClearIInv DEF Emulator
<1>2. CASE Program
  BY <1>2, OpenFailsIInv, OpenFindsIInv, StartThreadIInv, OpenAgainIInv, CloseIInv, ResetIInv,
     BeginIOIInv, AbortIInv DEF Program
<1>3. CASE \E n \in Threads : dev_thread(n)
  BY <1>3, ThreadIInv
<1>4. CASE UNCHANGED scsiVars
  <2>1. /\ UNCHANGED <<thread, emu, opencnt, d_request, thread_running, sync_sem, requests>>
        /\ UNCHANGED <<opens, change_sem, owner, boot, early, astray, host, inherited>>
    BY <1>4 DEF scsiVars, devVars, driveVars, counters
  <2>2. /\ InTurn' /\ Carry' /\ \A n \in Threads : Newest(n)' <=> Newest(n)
        /\ Count({"start"})' = Count({"start"}) /\ Count(Posters)' = Count(Posters)
        /\ Count(Lockers)' = Count(Lockers)
    BY <2>1, ThreadsStay
  <2>3. (Resetting' <=> Resetting) /\ \A i \in Items : Wanted(i) => Wanted(i)'
    BY <2>1 DEF Resetting, Wanted, Now
  <2>4. OneCopy' /\ Current'
    BY <2>1, <2>3, RequestsWait
  <2>5. Kinds' /\ Counts' /\ Fresh' /\ Known' /\ Opened'
    BY <2>1, <2>2, <2>3 DEF ScsiIInv, Kinds, Counts, Fresh, Known, Opened
  <2> QED BY <2>2, <2>4, <2>5 DEF ScsiIInv
<1> QED BY <1>1, <1>2, <1>3, <1>4 DEF ScsiNext

\* The invariant says that the unit is sound.
LEMMA ScsiIInvIsSound == ScsiIInv => UnitIsSound
<1> SUFFICES ASSUME ScsiIInv PROVE UnitIsSound
  OBVIOUS
<1>1. /\ Kinds /\ Counts /\ Fresh /\ Known /\ Carry /\ Current /\ Opened
      /\ thread \in [Threads -> [at : Where, req : Items]]
  BY DEF ScsiIInv, Kinds
<1>2. {Count({"start"}), Count(Posters), Count(Lockers)} \subseteq Nat
  <2>1. \A P : Count(P) \in Nat
    <3> SUFFICES ASSUME NEW P PROVE Count(P) \in Nat
      OBVIOUS
    <3>1. IsFiniteSet(Threads)
      BY ScsiSizes, FS_Interval DEF Threads
    <3>2. IsFiniteSet({n \in Threads : thread[n].at \in P})
      BY <3>1, FS_Subset
    <3> QED BY <3>2, FS_CardinalityType DEF Count
  <2> QED BY <2>1
<1>3. emu.at = "open" => Count(Posters) >= 1
  <2> SUFFICES ASSUME emu.at = "open" PROVE Count(Posters) # 0
    BY <1>2
  <2>1. PICK n \in Threads : thread[n].at \in {"start", "read"}
    BY <1>1 DEF Fresh
  <2>2. n \in {m \in Threads : thread[m].at \in Posters}
    BY <2>1 DEF Posters
  <2>3. IsFiniteSet(Threads)
    BY ScsiSizes, FS_Interval DEF Threads
  <2>4. IsFiniteSet({m \in Threads : thread[m].at \in Posters})
    BY <2>3, FS_Subset
  <2> QED BY <2>2, <2>4, FS_EmptySet DEF Count
<1>4. ScsiTypeOK
  <2>1. /\ {opencnt, sync_sem, change_sem, opens, boot, MaxOpens, MaxResets} \subseteq Nat
        /\ opens <= MaxOpens /\ boot <= MaxResets
    BY <1>1, ScsiSizes DEF Kinds
  <2>2. opencnt <= MaxOpens /\ sync_sem <= MaxOpens
    BY <1>1, <1>2, <1>3, <2>1 DEF Counts
  <2>3. change_sem <= 1 + MaxResets
    BY <1>1, <1>2, <2>1 DEF Counts
  <2>4. \A n \in Threads : thread[n].at \in Where
    BY <1>1
  <2> QED BY <1>1, <2>1, <2>2, <2>3, <2>4 DEF ScsiTypeOK, Kinds
<1>5. ThreadsAreKnown
  <2> SUFFICES ASSUME ~early, astray = {} PROVE OneThread /\ DeadWhenKilled
    BY DEF ThreadsAreKnown
  <2>1. \A n \in Serving : n \in Threads /\ Newest(n)
    BY <1>1 DEF Known, Serving
  <2>2. \A n, m \in Serving : n = m
    BY <2>1, ScsiSizes DEF Newest, Threads
  <2>3. OneThread
    <3>1. CASE Serving = {}
      BY <3>1, FS_EmptySet DEF OneThread
    <3>2. CASE Serving # {}
      <4>1. PICK n : Serving = {n}
        BY <2>2, <3>2
      <4>2. Cardinality({n}) = 1
        BY FS_Singleton
      <4>3. Cardinality(Serving) = 1
        BY ONLY <4>1, <4>2
      <4> QED BY ONLY <4>3 DEF OneThread
    <3> QED BY <3>1, <3>2
  <2>4. DeadWhenKilled
    BY <1>1, <2>1 DEF Known, Serving, DeadWhenKilled
  <2> QED BY <2>3, <2>4
<1>6. DriveIsOpen
  <2> SUFFICES ASSUME NEW n \in Threads, thread[n].at = "work", thread[n].req.boot = boot
               PROVE  host \/ inherited
    BY DEF DriveIsOpen
  <2>1. thread[n].req # Death /\ thread[n].req \in Items
    BY <1>1 DEF Carry
  <2>2. Now(thread[n].req)
    BY <2>1, ScsiSizes DEF Now
  <2>3. opencnt > 0
    BY <1>1, <2>2 DEF Current, Wanted
  <2> QED BY <1>1, <2>3 DEF Opened
<1> QED BY <1>4, <1>5, <1>6 DEF UnitIsSound

\* Whatever is opened, closed, sent, aborted or reset, and however far the dying
\* threads are: but for the two races of scsiemul.c with a thread the last close
\* did not wait for, one thread at most serves a unit and it is dead when dev_exit
\* has waited for it; and a request is done on a drive that is open on the host.
THEOREM UnitServedByOneThread == ScsiSpec => []UnitIsSound
<1>1. ScsiSpec => []ScsiIInv
  BY ScsiStarts, ScsiSteps, PTL DEF ScsiSpec
<1> QED BY <1>1, ScsiIInvIsSound, PTL
=============================================================================
