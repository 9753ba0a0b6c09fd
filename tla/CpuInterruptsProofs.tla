------------------------ MODULE CpuInterruptsProofs ------------------------
(***************************************************************************)
(* For any set of interrupts, any masks a program sets and any nesting of  *)
(* handlers: a request above the mask is never forgotten, and no interrupt *)
(* is taken between a trap's return to the 68k and the handler it asked    *)
(* for.                                                                    *)
(*                                                                         *)
(* NothingForgotten speaks of the moments before an opcode and, in         *)
(* cycle-exact mode, only of an empty stack of handlers.  The invariant    *)
(* holds in every phase of the loop, and says why an RTE asks for another  *)
(* look: the mask it restores is below the one in force.                   *)
(***************************************************************************)
EXTENDS CpuInterrupts, TLAPS, WellFoundedInduction

AllDisjoint(c) == \A j, k \in DOMAIN c : j # k => c[j] \cap c[k] = {}

\* INTREQ, INTENA and irq_pending; a request is on its way at most once.
Chips ==
    /\ intreq \subseteq Irq /\ intena \subseteq Irq /\ master \in BOOLEAN
    /\ coming \in Seq(SUBSET Irq) /\ due \subseteq Irq /\ due \cap OnTheWay = {}
    /\ AllDisjoint(coming)

Flag == {"INT", "DOINT", "STOP"}

\* The processor and the interpreter's loop.
Processor ==
    /\ flags \subseteq Flag /\ intmask \in 0 .. 7
    /\ stack \in Seq(0 .. 7) /\ Len(stack) <= MaxDepth
    /\ phase \in {"op", "cycles", "special"} /\ forced \in {"none", "call", "exit"}

\* The trap's copy of the registers.  Until its handler runs the mask is 7.
Saved ==
    /\ saved \in Seq([flags : SUBSET Flag, mask : 0 .. 7, depth : Nat]) /\ Len(saved) <= 1
    /\ forced # "none" => saved # <<>> /\ intmask = 7

\* What the two preferences exclude: in cycle-exact mode nobody sets DOINT, and
\* so no trap brings it back with the flags it saved.
Preferences ==
    /\ exact \in BOOLEAN /\ traps \in BOOLEAN
    /\ ~traps => saved = <<>>
    /\ exact => "DOINT" \notin flags /\ (saved # <<>> => "DOINT" \notin saved[1].flags)

\* A request nobody looks at has a handler under it with a lower mask to restore.
Waiting ==
    ~traps /\ RawLevel > intmask /\ flags \cap {"INT", "DOINT"} = {}
        => exact /\ stack # <<>> /\ Head(stack) < intmask

IInv == Chips /\ Processor /\ Saved /\ Preferences /\ Waiting

-----------------------------------------------------------------------------
\* Induction over the natural numbers, for a set of them.
LEMMA SetInduction ==
  ASSUME NEW T, 0 \in T, \A n \in Nat : n \in T => n + 1 \in T
  PROVE Nat \subseteq T
<1> DEFINE Less == OpToRel(<, Nat)
<1>1. SUFFICES ASSUME Nat \ T # {} PROVE FALSE
  OBVIOUS
<1>2. PICK m \in Nat \ T : \A k \in Nat \ T : ~ (<<k, m>> \in Less)
  BY <1>1, NatLessThanWellFounded, WFMin, Zenon
<1>3. \A k \in Nat : k < m => k \in T
  BY <1>2 DEF OpToRel
<1>4. m # 0 /\ m - 1 \in Nat /\ m - 1 < m /\ m - 1 + 1 = m
  OBVIOUS
<1> QED
  BY <1>3, <1>4

\* Without's recursive function exists.
LEMMA KeptExists ==
  ASSUME NEW c \in Seq(SUBSET Irq), NEW S
  PROVE  \E f : f = [n \in 0 .. Len(c) |-> Filtered(c, S, f, n)]
<1> DEFINE P(f, m) == /\ f \in [0 .. m -> Seq(SUBSET Irq)]
                      /\ \A n \in 0 .. m : f[n] = Filtered(c, S, f, n)
           T == {m \in Nat : m <= Len(c) => \E f : P(f, m)}
<1>1. 0 \in T
  <2>1. P([n \in 0 .. 0 |-> <<>>], 0)
    BY DEF Filtered
  <2> QED BY <2>1
<1>2. ASSUME NEW m \in Nat, m \in T PROVE m + 1 \in T
  <2>1. SUFFICES ASSUME m + 1 <= Len(c) PROVE \E f : P(f, m + 1)
    <3> HIDE DEF P
    <3>1. m + 1 \in Nat
      OBVIOUS
    <3> QED BY <3>1, Zenon
  <2>2. PICK f : P(f, m)
    <3> HIDE DEF P
    <3>1. m <= Len(c)
      BY <2>1
    <3> QED BY <1>2, <3>1, Zenon
  <2> DEFINE x == Filtered(c, S, f, m + 1)
             g == [n \in 0 .. m + 1 |-> IF n = m + 1 THEN x ELSE f[n]]
  <2>3. f[m] \in Seq(SUBSET Irq) /\ c[m + 1] \ S \in SUBSET Irq
    BY <2>1, <2>2
  <2>4. x \in Seq(SUBSET Irq)
    BY <2>3 DEF Filtered
  <2>5. g \in [0 .. m + 1 -> Seq(SUBSET Irq)]
    <3> HIDE DEF x
    <3> QED BY <2>2, <2>4
  <2>6. ASSUME NEW n \in 0 .. m + 1 PROVE g[n] = Filtered(c, S, g, n)
    <3>1. n # 0 => g[n - 1] = f[n - 1] /\ n - 1 \in 0 .. m
      OBVIOUS
    <3>2. Filtered(c, S, g, n) = Filtered(c, S, f, n)
      BY <3>1 DEF Filtered
    <3>3. n # m + 1 => n \in 0 .. m
      OBVIOUS
    <3> HIDE DEF x
    <3>4. g[n] = IF n = m + 1 THEN x ELSE f[n]
      OBVIOUS
    <3> QED BY <2>2, <3>2, <3>3, <3>4 DEF x
  <2>7. P(g, m + 1)
    <3> HIDE DEF g
    <3> QED BY <2>5, <2>6
  <2> HIDE DEF P, g
  <2> QED BY <2>7, Zenon
<1>3. Nat \subseteq T
  <2> HIDE DEF T
  <2> QED BY <1>1, <1>2, SetInduction
<1>4. PICK f : P(f, Len(c))
  <2> HIDE DEF P
  <2>1. Len(c) \in Nat /\ Len(c) <= Len(c)
    OBVIOUS
  <2> QED BY <1>3, <2>1, Zenon
<1> QED BY <1>4

\* What Without returns: the groups it is given, in their order, less S.
LEMMA WithoutKeeps ==
  ASSUME NEW c \in Seq(SUBSET Irq), AllDisjoint(c), NEW S
  PROVE  /\ Without(c, S) \in Seq(SUBSET Irq) /\ AllDisjoint(Without(c, S))
         /\ \A k \in DOMAIN Without(c, S) : \E j \in DOMAIN c : Without(c, S)[k] = c[j] \ S
<1> DEFINE R(f) == f = [n \in 0 .. Len(c) |-> Filtered(c, S, f, n)]
           kept == CHOOSE f : R(f)
           From(s, n) == \A k \in 1 .. Len(s) : \E j \in 1 .. n : s[k] = c[j] \ S
           Good(s, n) == /\ s \in Seq(SUBSET Irq) /\ From(s, n)
                         /\ \A j, k \in 1 .. Len(s) : j # k => s[j] \cap s[k] = {}
           T == {n \in Nat : n <= Len(c) => Good(kept[n], n)}
<1>1. R(kept)
  BY KeptExists, Zenon
<1>2. Without(c, S) = kept[Len(c)]
  BY Zenon DEF Without
<1> HIDE DEF kept
<1>3. \A n \in 0 .. Len(c) : kept[n] = Filtered(c, S, kept, n)
  BY <1>1
<1>4. 0 \in T
  <2>1. 0 \in 0 .. Len(c)
    OBVIOUS
  <2>2. kept[0] = <<>>
    BY <1>3, <2>1 DEF Filtered
  <2>3. Good(kept[0], 0)
    BY <2>2
  <2> QED BY <2>3
<1>5. ASSUME NEW n \in Nat, n \in T PROVE n + 1 \in T
  <2>1. SUFFICES ASSUME n + 1 <= Len(c) PROVE Good(kept[n + 1], n + 1)
    <3> HIDE DEF Good
    <3>1. n + 1 \in Nat
      OBVIOUS
    <3> QED BY <3>1, Zenon
  <2>2. n + 1 \in 0 .. Len(c) /\ n + 1 # 0 /\ n + 1 - 1 = n /\ Good(kept[n], n)
    BY <1>5, <2>1
  <2>3. kept[n + 1] = Filtered(c, S, kept, n + 1)
    BY <1>3, <2>2
  <2>4. c[n + 1] \ S \in SUBSET Irq
    BY <2>2
  <2>5. CASE c[n + 1] \subseteq S
    BY <2>2, <2>3, <2>5 DEF Filtered
  <2>6. CASE ~ (c[n + 1] \subseteq S)
    <3>1. kept[n + 1] = Append(kept[n], c[n + 1] \ S)
      BY <2>2, <2>3, <2>6 DEF Filtered
    <3>2. \A k \in 1 .. Len(kept[n]) : kept[n][k] \cap (c[n + 1] \ S) = {}
      <4> TAKE k \in 1 .. Len(kept[n])
      <4>1. PICK j \in 1 .. n : kept[n][k] = c[j] \ S
        BY <2>2
      <4> QED BY <4>1, <2>1 DEF AllDisjoint
    <3>3. kept[n + 1] \in Seq(SUBSET Irq) /\ From(kept[n + 1], n + 1)
      BY <2>2, <2>4, <3>1
    <3>4. \A j, k \in 1 .. Len(kept[n + 1]) : j # k => kept[n + 1][j] \cap kept[n + 1][k] = {}
      <4> DEFINE s == kept[n]
                 x == c[n + 1] \ S
      <4>1. s \in Seq(SUBSET Irq) /\ Len(s) \in Nat
            /\ \A j, k \in 1 .. Len(s) : j # k => s[j] \cap s[k] = {}
        BY <2>2
      <4>2. /\ Len(Append(s, x)) = Len(s) + 1 /\ Append(s, x)[Len(s) + 1] = x
            /\ \A k \in 1 .. Len(s) : Append(s, x)[k] = s[k]
        BY <2>4, <4>1
      <4>3. \A k \in 1 .. Len(s) : s[k] \cap x = {} /\ x \cap s[k] = {}
        BY <3>2
      <4>4. \A k \in 1 .. Len(s) + 1 : k \in 1 .. Len(s) \/ k = Len(s) + 1
        BY <4>1
      <4> HIDE DEF s, x
      <4>5. \A j, k \in 1 .. Len(s) + 1 :
              j # k => Append(s, x)[j] \cap Append(s, x)[k] = {}
        BY <4>1, <4>2, <4>3, <4>4, Zenon
      <4> QED BY <3>1, <4>2, <4>5 DEF s, x
    <3> QED BY <3>3, <3>4
  <2> QED BY <2>5, <2>6
<1>6. Good(kept[Len(c)], Len(c))
  <2> HIDE DEF T
  <2>1. Nat \subseteq T
    BY <1>4, <1>5, SetInduction
  <2>2. Len(c) \in T
    BY <2>1
  <2> HIDE DEF Good
  <2> QED BY <2>2 DEF T
<1>7. DOMAIN kept[Len(c)] = 1 .. Len(kept[Len(c)]) /\ DOMAIN c = 1 .. Len(c)
  BY <1>6
<1> QED BY <1>2, <1>6, <1>7, Zenon DEF AllDisjoint

-----------------------------------------------------------------------------
\* A sequence that is not empty has a first element.
LEMMA FirstOf ==
  ASSUME NEW S, NEW s \in Seq(S), s # <<>>
  PROVE  /\ s[1] \in S /\ Head(s) = s[1] /\ Len(s) > 0 /\ Len(s) \in Nat
         /\ Tail(s) \in Seq(S) /\ Len(Tail(s)) = Len(s) - 1
OBVIOUS

\* More requests never lower the level.
LEMMA LevelGrows ==
  ASSUME NEW A, NEW B, A \subseteq B
  PROVE  IntlevSimple(A) <= IntlevSimple(B) /\ IntlevSimple(A) \in 1 .. 6
BY DEF IntlevSimple

\* What the CPU is asked: never above 6, what RawLevel says outside cycle-exact
\* mode, and nothing at all only if no request is active.
LEMMA LevelAsked ==
  /\ intlev \in -1 .. 6 /\ RawLevel \in -1 .. 6
  /\ ~exact => intlev = RawLevel
  /\ intlev < 0 => RawLevel = -1
<1>1. IntlevExact(Active) \in 0 .. 6
  BY DEF IntlevExact, Level
<1> QED
  BY <1>1, LevelGrows DEF intlev, RawLevel

\* doint keeps irq_pending whole, whatever is left of it.
LEMMA DointKeeps ==
  ASSUME Chips, intreq' \subseteq Irq, intena' \subseteq Irq, master' \in BOOLEAN,
         NEW c \in Seq(SUBSET Irq), AllDisjoint(c), UNION {c[k] : k \in DOMAIN c} \subseteq OnTheWay,
         NEW d, d \subseteq due, DointAfter(c, d)
  PROVE  Chips'
<1> DEFINE fresh == (intreq' \cap intena') \ (OnTheWay \cup d)
<1>1. fresh \in SUBSET Irq /\ \A k \in DOMAIN c : c[k] \cap fresh = {}
  OBVIOUS
<1>2. (\A k \in DOMAIN c : c[k] \cap d = {}) /\ fresh \cap d = {}
  BY DEF Chips
<1>3. due' = d /\ (coming' = Append(c, fresh) \/ coming' = c)
  BY DEF DointAfter
<1> HIDE DEF fresh
<1>4. CASE coming' = c
  BY <1>2, <1>3, <1>4 DEF Chips, OnTheWay
<1>5. CASE coming' = Append(c, fresh)
  <2>1. coming' \in Seq(SUBSET Irq) /\ AllDisjoint(coming')
    BY <1>1, <1>5 DEF AllDisjoint
  <2>2. \A k \in DOMAIN coming' : coming'[k] \cap d = {}
    BY <1>1, <1>2, <1>5
  <2> QED
    BY <1>3, <2>1, <2>2 DEF Chips, OnTheWay
<1> QED
  BY <1>3, <1>4, <1>5

\* What a write to INTREQ or INTENA, or a device, does to the chips: irq_pending
\* stays whole, and whoever raises the level asks for a look.
RaisesLook ==
    /\ Chips'
    /\ flags' = flags \/ flags' = flags \cup {"INT"}
    /\ RawLevel' \in -1 .. 6 /\ (RawLevel' > RawLevel => "INT" \in flags')

\* The level stays between none and 6.
LEMMA NextLevel == RawLevel' \in -1 .. 6
BY LevelGrows DEF RawLevel

\* doint sets a flag if the chips ask for anything at all.
LEMMA DointLooks ==
  ASSUME NEW c, NEW d, DointAfter(c, d)
  PROVE  /\ flags' = flags \/ flags' = flags \cup {"INT"}
         /\ "INT" \notin flags' => RawLevel' = -1
BY DEF DointAfter, RawLevel

\* Fewer active requests never raise the level.
LEMMA LessIsLower ==
  ASSUME Active' \subseteq Active, master' => master
  PROVE  RawLevel' <= RawLevel
BY LevelGrows DEF RawLevel

\* INTREQ set, by the program or by a device.
LEMMA RequestLooks ==
  ASSUME Chips, NEW S \in SUBSET Irq, Request(S)
  PROVE  RaisesLook
<1>1. intreq' \subseteq Irq /\ intena' \subseteq Irq /\ master' \in BOOLEAN /\ master' = master
  BY DEF Request, Chips
<1>2. CASE master
  <2>1. DointAfter(coming, due)
    BY <1>2 DEF Request, Doint
  <2>2. Chips'
    BY <1>1, <2>1, DointKeeps DEF Chips, OnTheWay
  <2> QED
    BY <2>1, <2>2, DointLooks, LevelAsked, NextLevel DEF RaisesLook
<1>3. CASE ~master
  <2>1. UNCHANGED <<coming, due, flags>> /\ RawLevel' = -1
    BY <1>1, <1>3 DEF Request, RawLevel
  <2> QED
    BY <1>1, <2>1, LevelAsked, NextLevel DEF RaisesLook, Chips, OnTheWay
<1> QED
  BY <1>2, <1>3

\* INTREQ cleared.
LEMMA AcknowledgeLooks ==
  ASSUME Chips, NEW S \in SUBSET Irq, Acknowledge(S)
  PROVE  RaisesLook
<1> DEFINE c == Without(coming, S)
<1>1. intreq' \subseteq Irq /\ intena' \subseteq Irq /\ master' \in BOOLEAN /\ master' = master
  BY DEF Acknowledge, Chips
<1>2. /\ c \in Seq(SUBSET Irq) /\ AllDisjoint(c)
      /\ \A k \in DOMAIN c : \E j \in DOMAIN coming : c[k] = coming[j] \ S
  BY WithoutKeeps DEF Chips
<1> HIDE DEF c
<1>3. UNION {c[k] : k \in DOMAIN c} \subseteq OnTheWay
  BY <1>2 DEF OnTheWay
<1>4. CASE master
  <2>1. DointAfter(c, due \ S)
    BY <1>4 DEF Acknowledge, c
  <2>2. Chips'
    BY <1>1, <1>2, <1>3, <2>1, DointKeeps
  <2> QED
    BY <2>1, <2>2, DointLooks, LevelAsked, NextLevel DEF RaisesLook
<1>5. CASE ~master
  <2>1. coming' = c /\ due' = due \ S /\ flags' = flags /\ RawLevel' = -1
    BY <1>1, <1>5 DEF Acknowledge, RawLevel, c
  <2>2. Chips'
    BY <1>1, <1>2, <1>3, <2>1 DEF Chips, OnTheWay
  <2> QED
    BY <2>1, <2>2, LevelAsked, NextLevel DEF RaisesLook
<1> QED
  BY <1>4, <1>5

\* INTENA set or cleared.
LEMMA IntenaLooks ==
  ASSUME Chips, WriteIntena
  PROVE  RaisesLook
<1>1. PICK S \in SUBSET Irq, m \in BOOLEAN :
        /\ intreq' = intreq
        /\ \/ intena' = intena \cup S /\ master' = (master \/ m) /\ Doint
           \/ /\ intena' = intena \ S /\ master' = (master /\ ~m)
              /\ UNCHANGED <<coming, due, flags>>
  BY DEF WriteIntena
<1>2. CASE intena' = intena \cup S /\ master' = (master \/ m) /\ Doint
  <2>1. intreq' \subseteq Irq /\ intena' \subseteq Irq /\ master' \in BOOLEAN
    BY <1>1, <1>2 DEF Chips
  <2>2. DointAfter(coming, due)
    BY <1>2 DEF Doint
  <2>3. Chips'
    BY <2>1, <2>2, DointKeeps DEF Chips, OnTheWay
  <2> QED
    BY <2>2, <2>3, DointLooks, LevelAsked, NextLevel DEF RaisesLook
<1>3. CASE /\ intena' = intena \ S /\ master' = (master /\ ~m)
           /\ UNCHANGED <<coming, due, flags>>
  <2>1. Active' \subseteq Active /\ (master' => master)
    BY <1>1, <1>3 DEF Active
  <2>2. Chips'
    BY <1>1, <1>3 DEF Chips, OnTheWay
  <2> QED
    BY <1>3, <2>1, <2>2, LessIsLower, LevelAsked, NextLevel DEF RaisesLook
<1> QED
  BY <1>1, <1>2, <1>3

-----------------------------------------------------------------------------
\* The first state.
LEMMA InitIInv == Init => IInv
<1> SUFFICES ASSUME Init PROVE IInv
  OBVIOUS
<1> USE CpuAssumption DEF CpuAssumption
<1>1. Chips
  <2>1. DOMAIN coming = {} /\ coming \in Seq(SUBSET Irq)
    BY DEF Init
  <2> QED
    BY <2>1 DEF Init, Chips, AllDisjoint, OnTheWay
<1>2. Processor /\ Saved
  BY DEF Init, Processor, Saved, Flag
<1>3. Preferences /\ Waiting
  BY DEF Init, Preferences, Waiting, RawLevel
<1> QED
  BY <1>1, <1>2, <1>3 DEF IInv

\* The invariant contains the types.
LEMMA TypeFromParts == IInv => TypeOK
BY DEF IInv, TypeOK, Chips, Processor, Saved, Flag

-----------------------------------------------------------------------------
\* A step that leaves the chips alone.
LEMMA ChipsUntouched ==
  ASSUME Chips, UNCHANGED chipVars
  PROVE  Chips' /\ RawLevel' = RawLevel
BY DEF chipVars, Chips, OnTheWay, RawLevel, Active

\* A step that only touches the chips, and asks for a look where it must.
LEMMA LookingKeeps ==
  ASSUME IInv, RaisesLook, UNCHANGED <<prefs, intmask, stack, forced, saved>>,
         phase' \in {"op", "cycles", "special"}
  PROVE  IInv'
<1>1. Processor' /\ Saved'
  BY DEF IInv, Processor, Saved, RaisesLook, Flag
<1>2. Preferences'
  BY DEF IInv, Preferences, RaisesLook, prefs
<1>3. Waiting'
  <2>1. CASE RawLevel' > RawLevel
    BY <2>1 DEF RaisesLook, Waiting
  <2>2. CASE ~(RawLevel' > RawLevel)
    <3>1. RawLevel' > intmask' => RawLevel > intmask
      BY <2>2, LevelAsked DEF IInv, Processor, RaisesLook
    <3> QED
      BY <3>1 DEF IInv, Waiting, RaisesLook, prefs
  <2> QED
    BY <2>1, <2>2
<1> QED
  BY <1>1, <1>2, <1>3 DEF IInv, RaisesLook

\* An instruction that loads the status register, with m on what is left of the
\* stack: a lower level than the one the mask was raised to is asked for again.
LEMMA LoadingKeeps ==
  ASSUME IInv, forced = "none", UNCHANGED <<prefs, chipVars, forced, saved>>,
         phase' \in {"op", "cycles", "special"},
         NEW m \in 0 .. 7, intmask' = m,
         stack' = stack \/ (stack # <<>> /\ stack' = Tail(stack) /\ m = Head(stack)),
         NEW f, f = flags \/ f = flags \cup {"STOP"},
         flags' = f \cup {"INT"} \/ (m = intmask /\ flags' = f)
  PROVE  IInv'
<1>1. Processor'
  <2>1. stack' \in Seq(0 .. 7) /\ Len(stack') <= MaxDepth
    BY FirstOf, CpuAssumption DEF IInv, Processor, CpuAssumption
  <2> QED
    BY <2>1 DEF IInv, Processor, Flag
<1>2. Saved' /\ Preferences'
  BY DEF IInv, Saved, Preferences, prefs
<1>3. Chips' /\ RawLevel' = RawLevel
  BY ChipsUntouched DEF IInv
<1>4. Waiting'
  <2>1. CASE "INT" \in flags'
    BY <2>1 DEF Waiting
  <2>2. CASE "INT" \notin flags'
    <3>1. m = intmask /\ flags' \cap {"INT", "DOINT"} = flags \cap {"INT", "DOINT"}
      BY <2>2
    <3>2. CASE stack' = stack
      BY <1>3, <3>1, <3>2 DEF IInv, Waiting, prefs
    <3>3. CASE stack # <<>> /\ stack' = Tail(stack) /\ m = Head(stack)
      BY <1>3, <3>1, <3>3 DEF IInv, Waiting, Processor, prefs
    <3> QED
      BY <3>2, <3>3
  <2> QED
    BY <2>1, <2>2
<1> QED
  BY <1>1, <1>2, <1>3, <1>4 DEF IInv

\* One opcode, trap handlers included.
LEMMA ExecuteIInv == IInv /\ Execute /\ UNCHANGED prefs => IInv'
<1> SUFFICES ASSUME IInv, Instruction, phase' = "cycles", UNCHANGED prefs PROVE IInv'
  BY DEF Execute
<1> USE CpuAssumption DEF CpuAssumption
<1>1. CASE forced = "none" /\ TrapEnter
  <2> DEFINE r == [flags |-> flags, mask |-> intmask, depth |-> Len(stack)]
  <2>1. r \in [flags : SUBSET Flag, mask : 0 .. 7, depth : Nat]
    BY DEF IInv, Processor
  <2> HIDE DEF r
  <2>2. /\ saved' = <<r>> /\ r.flags = flags /\ intmask' = 7 /\ traps
        /\ UNCHANGED <<chipVars, flags, stack>>
    BY <1>1 DEF TrapEnter, r
  <2>3. Saved' /\ Preferences'
    BY <2>1, <2>2 DEF IInv, Saved, Preferences, prefs
  <2>4. Processor' /\ Waiting'
    BY <1>1, <2>2 DEF TrapEnter, IInv, Processor, Waiting, prefs
  <2> QED
    BY <2>2, <2>3, <2>4, ChipsUntouched DEF IInv
<1>2. CASE forced = "none" /\ TrapReturn
  <2>1. traps /\ intmask' = 7 /\ UNCHANGED <<chipVars, flags, stack, saved>>
    BY <1>2 DEF TrapReturn, IInv, Preferences
  <2>2. Saved' /\ Preferences' /\ Processor' /\ Waiting'
    BY <1>2, <2>1 DEF TrapReturn, IInv, Saved, Preferences, Processor, Waiting, prefs
  <2> QED
    BY <2>1, <2>2, ChipsUntouched DEF IInv
<1>3. CASE TrapCall
  <2>1. saved[1] \in [flags : SUBSET Flag, mask : 0 .. 7, depth : Nat] /\ traps
    <3>1. forced # "none"
      BY <1>3 DEF TrapCall
    <3>2. saved \in Seq([flags : SUBSET Flag, mask : 0 .. 7, depth : Nat]) /\ saved # <<>>
      BY <3>1 DEF IInv, Saved
    <3>3. traps
      BY <3>2 DEF IInv, Preferences
    <3> QED
      BY <3>2, <3>3, FirstOf
  <2>2. Saved' /\ Preferences' /\ Processor' /\ Waiting'
    BY <1>3, <2>1 DEF TrapCall, IInv, Saved, Preferences, Processor, Waiting, prefs
  <2> QED
    BY <1>3, <2>2, ChipsUntouched DEF TrapCall, IInv
<1>4. CASE TrapExit
  <2>1. saved[1] \in [flags : SUBSET Flag, mask : 0 .. 7, depth : Nat] /\ traps
    <3>1. forced # "none"
      BY <1>4 DEF TrapExit
    <3>2. saved \in Seq([flags : SUBSET Flag, mask : 0 .. 7, depth : Nat]) /\ saved # <<>>
      BY <3>1 DEF IInv, Saved
    <3>3. traps
      BY <3>2 DEF IInv, Preferences
    <3> QED
      BY <3>2, <3>3, FirstOf
  <2>2. Saved' /\ Preferences' /\ Processor' /\ Waiting'
    BY <1>4, <2>1 DEF TrapExit, IInv, Saved, Preferences, Processor, Waiting, prefs
  <2> QED
    BY <1>4, <2>2, ChipsUntouched DEF TrapExit, IInv
<1>5. CASE forced = "none" /\ UNCHANGED forced /\ Plain
  <2>1. Saved' /\ Preferences' /\ Processor'
    BY <1>5 DEF Plain, IInv, Saved, Preferences, Processor, prefs
  <2>2. Chips' /\ RawLevel' = RawLevel
    BY <1>5, ChipsUntouched DEF Plain, IInv
  <2> QED
    BY <1>5, <2>1, <2>2 DEF Plain, IInv, Waiting, prefs
<1>6. CASE forced = "none" /\ UNCHANGED forced /\ WriteIntena
  <2>1. UNCHANGED <<intmask, stack, saved>>
    BY <1>6 DEF WriteIntena
  <2> QED
    BY <1>6, <2>1, IntenaLooks, LookingKeeps DEF IInv
<1>7. CASE forced = "none" /\ UNCHANGED forced /\ WriteIntreq
  <2>1. PICK S \in SUBSET Irq : Request(S) \/ Acknowledge(S)
    BY <1>7 DEF WriteIntreq
  <2>2. UNCHANGED <<intmask, stack, saved>>
    BY <1>7 DEF WriteIntreq
  <2>3. RaisesLook
    BY <2>1, RequestLooks, AcknowledgeLooks DEF IInv
  <2> QED
    BY <1>7, <2>2, <2>3, LookingKeeps
<1>8. CASE forced = "none" /\ UNCHANGED forced /\ Rte
  <2>1. stack # <<>> /\ Head(stack) \in 0 .. 7 /\ stack' = Tail(stack)
    BY <1>8 DEF Rte, IInv, Processor
  <2>2. /\ intmask' = Head(stack)
        /\ \/ flags' = flags \cup {"INT"}
           \/ Head(stack) = intmask /\ flags' = flags
    BY <1>8 DEF Rte, MakeFromSR
  <2>3. UNCHANGED <<prefs, chipVars, forced, saved>>
    BY <1>8 DEF Rte
  <2> QED
    BY <1>8, <2>1, <2>2, <2>3, LoadingKeeps
<1>9. CASE forced = "none" /\ UNCHANGED forced /\ MoveToSR
  <2>1. PICK m \in SrMasks : MakeFromSR(m)
    BY <1>9 DEF MoveToSR
  <2>2. /\ m \in 0 .. 7 /\ intmask' = m
        /\ flags' = flags \cup {"INT"} \/ (m = intmask /\ flags' = flags)
    BY <2>1 DEF MakeFromSR
  <2>3. UNCHANGED <<prefs, chipVars, forced, saved, stack>>
    BY <1>9 DEF MoveToSR
  <2> QED
    BY <1>9, <2>2, <2>3, LoadingKeeps
<1>10. CASE forced = "none" /\ UNCHANGED forced /\ Stop
  <2>1. PICK m \in SrMasks :
          /\ intmask' = m
          /\ \/ flags' = flags \cup {"STOP"} \cup {"INT"}
             \/ m = intmask /\ flags' = flags \cup {"STOP"}
    BY <1>10 DEF Stop
  <2>2. m \in 0 .. 7
    OBVIOUS
  <2>3. UNCHANGED <<prefs, chipVars, forced, saved, stack>>
    BY <1>10 DEF Stop
  <2> QED
    BY <1>10, <2>1, <2>2, <2>3, LoadingKeeps
<1> QED
  BY <1>1, <1>2, <1>3, <1>4, <1>5, <1>6, <1>7, <1>8, <1>9, <1>10 DEF Instruction

\* do_specialties takes an interrupt, of the level the chips ask for.  Outside
\* cycle-exact mode nothing above it is left; in it, the mask pushed is lower.
LEMMA ServiceIInv == IInv /\ Service /\ UNCHANGED prefs => IInv'
<1> SUFFICES ASSUME IInv, Service, UNCHANGED prefs PROVE IInv'
  OBVIOUS
<1>1. /\ intlev > intmask /\ intlev \in -1 .. 6 /\ intmask \in 0 .. 7 /\ forced = "none"
      /\ stack' = <<intmask>> \o stack /\ intmask' = intlev
      /\ UNCHANGED <<intreq, intena, master, coming, forced, saved>>
      /\ flags' = Promote(flags \ ({"DOINT", "STOP"} \cup IF exact THEN {"INT"} ELSE {}))
  BY LevelAsked DEF Service, Accepted, IInv, Processor, Saved, trapVars
<1>2. stack \in Seq(0 .. 7) /\ <<intmask>> \in Seq(0 .. 7) /\ Len(stack) < MaxDepth
  BY <1>1 DEF Service, IInv, Processor
<1>3. stack' \in Seq(0 .. 7) /\ Len(stack') = Len(stack) + 1 /\ stack' # <<>> /\ Head(stack') = intmask
  BY <1>1, <1>2
<1>4. Processor'
  BY <1>1, <1>2, <1>3, CpuAssumption
  DEF Service, IInv, Processor, Promote, Flag, CpuAssumption
<1>5. Saved' /\ Preferences'
  BY <1>1 DEF IInv, Saved, Preferences, Promote, prefs
<1>6. Chips' /\ RawLevel' = RawLevel
  <2>1. due' \subseteq due
    BY DEF Service, DueAfterIntlev
  <2> QED
    BY <1>1, <2>1 DEF IInv, Chips, OnTheWay, RawLevel, Active
<1>7. Waiting'
  <2>1. CASE exact
    BY <1>1, <1>3, <2>1 DEF Waiting, prefs
  <2>2. CASE ~exact
    BY <1>1, <1>6, <2>2, LevelAsked DEF Waiting
  <2> QED
    BY <2>1, <2>2
<1> QED
  BY <1>4, <1>5, <1>6, <1>7 DEF IInv

\* do_specialties takes none: what was asked is asked again, or was looked at.
LEMMA NoServiceIInv == IInv /\ NoService /\ UNCHANGED prefs => IInv'
<1> SUFFICES ASSUME IInv, NoService, UNCHANGED prefs PROVE IInv'
  OBVIOUS
<1>1. /\ Asked => intlev <= intmask
      /\ UNCHANGED <<intreq, intena, master, coming, intmask, stack, forced, saved>>
      /\ flags' = Promote(flags \ ({"DOINT"} \cup
                     IF Asked /\ exact /\ intlev < 0 THEN {"INT"} ELSE {}))
  BY LevelAsked DEF NoService, Accepted, IInv, Processor, trapVars
<1>2. Processor'
  BY <1>1 DEF NoService, IInv, Processor, Promote, Flag
<1>3. Saved' /\ Preferences'
  BY <1>1 DEF IInv, Saved, Preferences, Promote, prefs
<1>4. Chips' /\ RawLevel' = RawLevel
  <2>1. due' \subseteq due
    BY DEF NoService, DueAfterIntlev
  <2> QED
    BY <1>1, <2>1 DEF IInv, Chips, OnTheWay, RawLevel, Active
<1>5. Waiting'
  <2>1. SUFFICES ASSUME ~traps, RawLevel > intmask, flags' \cap {"INT", "DOINT"} = {}
                 PROVE  exact /\ stack # <<>> /\ Head(stack) < intmask
    BY <1>1, <1>4 DEF Waiting, prefs
  <2>2. RawLevel >= 0
    BY <2>1, LevelAsked DEF IInv, Processor
  <2>3. CASE exact
    <3>1. ~(intlev < 0)
      BY <2>2, LevelAsked
    <3>2. flags \cap {"INT", "DOINT"} = {}
      BY <1>1, <2>1, <2>3, <3>1 DEF Promote, IInv, Preferences
    <3> QED
      BY <2>1, <3>2 DEF IInv, Waiting
  <2>4. CASE ~exact
    <3>1. "INT" \notin flags
      BY <1>1, <2>1, <2>4 DEF Promote
    <3>2. "DOINT" \notin flags
      BY <1>1, <2>1, <2>4, LevelAsked DEF Asked, IInv, Processor
    <3> QED
      BY <2>1, <3>1, <3>2 DEF IInv, Waiting
  <2> QED
    BY <2>3, <2>4
<1> QED
  BY <1>2, <1>3, <1>4, <1>5 DEF IInv

\* The oldest requests on their way arrive.
LEMMA TimeIInv == IInv /\ TimePasses /\ UNCHANGED prefs => IInv'
<1> SUFFICES ASSUME IInv, TimePasses, UNCHANGED prefs PROVE IInv'
  OBVIOUS
<1>1. /\ coming # <<>> /\ due' = due \cup Head(coming) /\ coming' = Tail(coming)
      /\ UNCHANGED <<intreq, intena, master, flags, intmask, stack, phase, forced, saved>>
  BY DEF TimePasses, trapVars
<1>2. coming \in Seq(SUBSET Irq) /\ AllDisjoint(coming) /\ due \cap OnTheWay = {}
  BY DEF IInv, Chips
<1>3. /\ coming' \in Seq(SUBSET Irq) /\ Head(coming) = coming[1] /\ Head(coming) \subseteq Irq
      /\ \A k \in DOMAIN coming' : k + 1 \in DOMAIN coming /\ k + 1 # 1 /\ coming'[k] = coming[k + 1]
      /\ 1 \in DOMAIN coming
  BY <1>1, <1>2, FirstOf
<1>4. AllDisjoint(coming')
  <2> SUFFICES ASSUME NEW j \in DOMAIN coming', NEW k \in DOMAIN coming', j # k
               PROVE  coming'[j] \cap coming'[k] = {}
    BY DEF AllDisjoint
  <2>1. j + 1 # k + 1
    BY <1>3
  <2> QED
    BY <1>2, <1>3, <2>1 DEF AllDisjoint
<1>5. due' \cap OnTheWay' = {}
  BY <1>1, <1>2, <1>3 DEF OnTheWay, AllDisjoint
<1>6. Chips'
  BY <1>1, <1>3, <1>4, <1>5 DEF IInv, Chips
<1>7. Processor' /\ Saved' /\ Preferences'
  BY <1>1 DEF IInv, Processor, Saved, Preferences, prefs
<1>8. Waiting'
  BY <1>1 DEF IInv, Waiting, RawLevel, Active, prefs
<1> QED
  BY <1>6, <1>7, <1>8 DEF IInv

\* Every step.
LEMMA NextIInv == IInv /\ [Next]_vars => IInv'
<1> SUFFICES ASSUME IInv, [Next]_vars PROVE IInv'
  OBVIOUS
<1>1. CASE (CyclesDone /\ UNCHANGED prefs) \/ UNCHANGED vars
  <2>1. /\ UNCHANGED <<prefs, chipVars, flags, intmask, stack, forced, saved>>
        /\ phase' \in {"op", "cycles", "special"}
    BY <1>1 DEF CyclesDone, vars, trapVars, IInv, Processor
  <2>2. Processor' /\ Saved' /\ Preferences'
    BY <2>1 DEF IInv, Processor, Saved, Preferences, prefs
  <2>3. Chips' /\ RawLevel' = RawLevel
    BY <2>1, ChipsUntouched DEF IInv
  <2> QED
    BY <2>1, <2>2, <2>3 DEF IInv, Waiting, prefs
<1>2. CASE DeviceRaises /\ UNCHANGED prefs
  <2>1. PICK i \in Irq : Request({i})
    BY <1>2 DEF DeviceRaises
  <2>2. RaisesLook
    BY <2>1, RequestLooks DEF IInv
  <2>3. /\ UNCHANGED <<intmask, stack, forced, saved, phase>>
        /\ phase \in {"op", "cycles", "special"}
    BY <1>2 DEF DeviceRaises, trapVars, IInv, Processor
  <2> QED
    BY <1>2, <2>2, <2>3, LookingKeeps
<1> QED
  BY <1>1, <1>2, ExecuteIInv, ServiceIInv, NoServiceIInv, TimeIInv DEF Next, Cpu

\* The invariant holds in every state.
LEMMA InvariantHolds == Spec => []IInv
BY InitIInv, NextIInv, PTL DEF Spec

\* A request above the mask is never left without a flag that has it looked at,
\* but in cycle-exact mode while a handler runs.
THEOREM NoRequestForgotten == Spec => []NothingForgotten
<1>1. IInv => NothingForgotten
  BY TypeFromParts DEF IInv, Waiting, NothingForgotten, Forgotten
<1> QED
  BY <1>1, InvariantHolds, PTL

\* No interrupt is taken between a trap's switch to the 68k and the handler it
\* asked for: the mask is 7 there, and no level is above 6.
THEOREM HandoverUndisturbed == Spec => NoInterruptAtHandover
<1>1. IInv /\ [Next]_vars => [forced # "none" => Len(stack') <= Len(stack)]_vars
  <2> SUFFICES ASSUME IInv, Next, forced # "none" PROVE Len(stack') <= Len(stack)
    OBVIOUS
  <2>1. Len(stack) \in Nat /\ intmask = 7
    BY DEF IInv, Processor, Saved
  <2>2. ~Service
    BY <2>1, LevelAsked DEF Service, Accepted
  <2>3. stack' = stack
    BY <2>2 DEF Next, Cpu, Execute, Instruction, TrapCall, TrapExit, CyclesDone, NoService,
                DeviceRaises, TimePasses
  <2> QED
    BY <2>1, <2>3
<1> QED
  BY <1>1, InvariantHolds, PTL DEF Spec, NoInterruptAtHandover
=============================================================================
