---------------------------- MODULE FilesysProofs ----------------------------
(***************************************************************************)
(* For any host's tree, any packets, and any size of the cache, the hash   *)
(* table and the scans' slots: the counts of an object say who holds it,   *)
(* what is held is not freed, and the list of what may be freed and the    *)
(* hash table are sound.                                                   *)
(*                                                                         *)
(* Sound is about the unit alone and holds between any two of the dozen    *)
(* things a packet does to it; Counted relates it to what the clients      *)
(* hold.  The lemmas go along the code: each of the unit's routines keeps  *)
(* Sound, and Keeps whatever is in use with its counts; each packet then   *)
(* changes the counts of one object and its holders together.  Walks and   *)
(* loops are recursive functions: each is shown to exist, and of each the  *)
(* first step that would be wrong is looked at.                            *)
(***************************************************************************)
EXTENDS Filesys, FiniteSetTheorems, TLAPS, WellFoundedInduction

\* A set of numbers that is not empty has a least one.
LEMMA Least ==
  ASSUME NEW S \in SUBSET Nat, S # {}
  PROVE  \E k \in S : \A j \in S : k <= j
<1> DEFINE Less == OpToRel(<, Nat)
<1>1. PICK k \in S : \A x \in S : ~ (<<x, k>> \in Less)
  <2> HIDE DEF Less
  <2>1. IsWellFoundedOn(Less, Nat)
    BY NatLessThanWellFounded DEF Less
  <2> QED BY <2>1, WFMin, Zenon
<1>2. \A x \in S : ~ (x < k)
  BY <1>1 DEF OpToRel
<1> QED BY <1>2

\* What is true of no least number is true of none: every proof about a
\* recursion looks at the first step that would be wrong.
LEMMA NoFirst ==
  ASSUME NEW S \in SUBSET Nat, 0 \notin S, \A m \in S : m = 0 \/ m - 1 \in S
  PROVE  S = {}
<1> SUFFICES ASSUME S # {} PROVE FALSE
  OBVIOUS
<1>1. PICK k \in S : \A j \in S : k <= j
  BY Least
<1>2. k \in Nat /\ k - 1 \in S
  BY <1>1
<1> QED BY <1>1, <1>2

-----------------------------------------------------------------------------
(* Lists without the members of a set.                                     *)

\* The list so far, with one entry more.
Rest(x, e, S) == IF e \in S THEN x ELSE Append(x, e)

\* What Without builds up, for the first n entries: there is such a function.
Keeping(f, list, S, n) ==
  f = [k \in 0 .. n |-> IF k = 0 THEN <<>> ELSE Rest(f[k - 1], list[k], S)]

\* There is such a function for every number of entries.
LEMMA KeepingExists ==
  ASSUME NEW list, NEW S, NEW n \in Nat
  PROVE  \E f : Keeping(f, list, S, n)
<1> DEFINE Bad == {m \in Nat : ~ \E f : Keeping(f, list, S, m)}
<1>1. 0 \notin Bad
  <2> DEFINE f == [k \in 0 .. 0 |-> <<>>]
  <2>1. f = [k \in 0 .. 0 |-> IF k = 0 THEN <<>> ELSE Rest(f[k - 1], list[k], S)]
    OBVIOUS
  <2> HIDE DEF f
  <2>2. Keeping(f, list, S, 0)
    BY <2>1 DEF Keeping
  <2> QED BY <2>2
<1>2. ASSUME NEW m \in Bad PROVE m = 0 \/ m - 1 \in Bad
  <2> SUFFICES ASSUME m # 0, m - 1 \notin Bad PROVE FALSE
    OBVIOUS
  <2>1. m \in Nat /\ m - 1 \in Nat
    OBVIOUS
  <2>2. PICK f : Keeping(f, list, S, m - 1)
    BY <2>1
  <2> DEFINE g == [k \in 0 .. m |-> IF k = m THEN Rest(f[m - 1], list[m], S) ELSE f[k]]
  <2>3. \A k \in 0 .. m - 1 : g[k] = f[k]
    BY <2>1
  <2>4. g[m] = Rest(f[m - 1], list[m], S) /\ g = [k \in 0 .. m |-> g[k]]
    BY <2>1
  <2> HIDE DEF g
  <2>5. ASSUME NEW k \in 0 .. m
        PROVE  g[k] = IF k = 0 THEN <<>> ELSE Rest(g[k - 1], list[k], S)
    <3>1. CASE k = m
      <4>1. m - 1 \in 0 .. m - 1
        BY <2>1
      <4> QED BY <2>1, <2>3, <2>4, <3>1, <4>1
    <3>2. CASE k # m
      <4>1. k \in 0 .. m - 1 /\ (k # 0 => k - 1 \in 0 .. m - 1)
        BY <2>1, <3>2
      <4>2. f[k] = IF k = 0 THEN <<>> ELSE Rest(f[k - 1], list[k], S)
        BY <2>2, <4>1 DEF Keeping
      <4> QED BY <2>3, <4>1, <4>2
    <3> QED BY <3>1, <3>2
  <2>6. g = [k \in 0 .. m |-> IF k = 0 THEN <<>> ELSE Rest(g[k - 1], list[k], S)]
    BY <2>4, <2>5
  <2>7. Keeping(g, list, S, m)
    BY <2>6 DEF Keeping
  <2> QED BY <2>7
<1>3. Bad \in SUBSET Nat
  OBVIOUS
<1>4. Bad = {}
  <2> HIDE DEF Bad
  <2> QED BY <1>1, <1>2, <1>3, NoFirst
<1> QED BY <1>4

\* A list that is one entry longer.
LEMMA Longer ==
  ASSUME NEW T, NEW s \in Seq(T), NEW e \in T
  PROVE  /\ Append(s, e) \in Seq(T)
         /\ Range(Append(s, e)) = Range(s) \cup {e}
         /\ IsInjective(s) /\ e \notin Range(s) => IsInjective(Append(s, e))
<1>1. /\ Append(s, e) \in Seq(T) /\ Len(s) \in Nat
      /\ DOMAIN s = 1 .. Len(s) /\ DOMAIN Append(s, e) = 1 .. Len(s) + 1
      /\ \A i \in 1 .. Len(s) : Append(s, e)[i] = s[i]
      /\ Append(s, e)[Len(s) + 1] = e
  OBVIOUS
<1>2. \A i : i \in 1 .. Len(s) + 1 <=> i \in 1 .. Len(s) \/ i = Len(s) + 1
  BY <1>1
<1>3. \A i \in 1 .. Len(s) : i # Len(s) + 1
  BY <1>1
<1> DEFINE t == Append(s, e)
<1> HIDE DEF t
<1>4. Range(t) = Range(s) \cup {e}
  BY <1>1, <1>2 DEF Range, t
<1>5. ASSUME IsInjective(s), e \notin Range(s) PROVE IsInjective(t)
  BY <1>1, <1>2, <1>3, <1>5 DEF Range, IsInjective, t
<1> QED BY <1>1, <1>4, <1>5 DEF t

\* What is left of a list, and in what order, once some are taken out.
LEMMA WithoutIs ==
  ASSUME NEW T, NEW list \in Seq(T), NEW S
  PROVE  /\ Without(list, S) \in Seq(T)
         /\ Range(Without(list, S)) = Range(list) \ S
         /\ IsInjective(list) => IsInjective(Without(list, S))
<1> DEFINE rest == CHOOSE f : Keeping(f, list, S, Len(list))
           Bounded(k) == {list[i] : i \in 1 .. k}
           Good(k) == /\ rest[k] \in Seq(T)
                      /\ Range(rest[k]) = Bounded(k) \ S
                      /\ IsInjective(list) => IsInjective(rest[k])
           Bad == {k \in 0 .. Len(list) : ~ Good(k)}
<1>0. Len(list) \in Nat /\ DOMAIN list = 1 .. Len(list)
  OBVIOUS
<1>1. Keeping(rest, list, S, Len(list))
  BY <1>0, KeepingExists
<1>2. Without(list, S) = rest[Len(list)]
  BY DEF Without, Keeping, Rest
<1>3. \A k \in 0 .. Len(list) :
        rest[k] = IF k = 0 THEN <<>> ELSE IF list[k] \in S THEN rest[k - 1]
                  ELSE Append(rest[k - 1], list[k])
  BY <1>1 DEF Keeping, Rest
<1> HIDE DEF rest
<1>4. 0 \notin Bad
  <2>1. rest[0] = <<>>
    BY <1>0, <1>3
  <2>2. Bounded(0) = {}
    OBVIOUS
  <2>3. <<>> \in Seq(T) /\ Range(<<>>) = {} /\ IsInjective(<<>>)
    BY DEF Range, IsInjective
  <2> QED BY <2>1, <2>2, <2>3
<1>5. ASSUME NEW k \in Bad PROVE k = 0 \/ k - 1 \in Bad
  <2> SUFFICES ASSUME k # 0, k - 1 \notin Bad PROVE FALSE
    OBVIOUS
  <2>1. k \in 1 .. Len(list) /\ k - 1 \in 0 .. Len(list) /\ k \in 0 .. Len(list)
    BY <1>0
  <2>2. Good(k - 1)
    BY <2>1
  <2>3. \A i : i \in 1 .. k <=> i \in 1 .. k - 1 \/ i = k
    BY <2>1
  <2>4. Bounded(k) = Bounded(k - 1) \cup {list[k]}
    BY <2>3
  <2>5. list[k] \in T
    BY <2>1
  <2>6. rest[k] = IF list[k] \in S THEN rest[k - 1] ELSE Append(rest[k - 1], list[k])
    BY <1>3, <2>1
  <2>7. CASE list[k] \in S
    <3> HIDE DEF Bounded
    <3>1. Bounded(k) \ S = Bounded(k - 1) \ S
      BY <2>4, <2>7
    <3>2. Good(k)
      BY <2>2, <2>6, <2>7, <3>1
    <3> QED BY <3>2, <2>1
  <2>8. CASE list[k] \notin S
    <3>1. ASSUME IsInjective(list) PROVE list[k] \notin Bounded(k - 1)
      <4>1. \A i \in 1 .. k - 1 : i \in DOMAIN list /\ i # k
        BY <1>0, <2>1
      <4>2. k \in DOMAIN list
        BY <1>0, <2>1
      <4> QED BY <3>1, <4>1, <4>2 DEF IsInjective
    <3> HIDE DEF Bounded
    <3>2. /\ Append(rest[k - 1], list[k]) \in Seq(T)
          /\ Range(Append(rest[k - 1], list[k])) = Range(rest[k - 1]) \cup {list[k]}
          /\ IsInjective(rest[k - 1]) /\ list[k] \notin Range(rest[k - 1])
                => IsInjective(Append(rest[k - 1], list[k]))
      BY <2>2, <2>5, Longer
    <3>3. Range(rest[k - 1]) \cup {list[k]} = Bounded(k) \ S
      BY <2>2, <2>4, <2>8
    <3>4. Good(k)
      BY <2>2, <2>6, <2>8, <3>1, <3>2, <3>3
    <3> QED BY <3>4, <2>1
  <2> QED BY <2>7, <2>8
<1>6. Bad \in SUBSET Nat
  OBVIOUS
<1>7. Bad = {}
  <2> HIDE DEF Bad
  <2> QED BY <1>4, <1>5, <1>6, NoFirst
<1>8. Good(Len(list))
  <2>1. Len(list) \in 0 .. Len(list)
    BY <1>0
  <2> HIDE DEF Good
  <2> QED BY <1>7, <2>1
<1>9. Bounded(Len(list)) = Range(list)
  BY <1>0 DEF Range
<1> QED BY <1>2, <1>8, <1>9

\* Only is the rest.
LEMMA OnlyIs ==
  ASSUME NEW T, NEW list \in Seq(T), NEW S
  PROVE  /\ Only(list, S) \in Seq(T)
         /\ Range(Only(list, S)) = Range(list) \cap S
<1> DEFINE others == Range(list) \ S
<1> HIDE DEF others
<1>1. Without(list, others) \in Seq(T) /\ Range(Without(list, others)) = Range(list) \ others
  BY WithoutIs
<1> QED BY <1>1 DEF Only, others

\* The entries of two lists joined.
LEMMA ConcatAt ==
  ASSUME NEW T, NEW s \in Seq(T), NEW t \in Seq(T)
  PROVE  /\ s \o t \in Seq(T) /\ Len(s \o t) = Len(s) + Len(t)
         /\ \A i \in 1 .. Len(s) + Len(t) : (s \o t)[i] = IF i <= Len(s) THEN s[i] ELSE t[i - Len(s)]
OBVIOUS

\* One entry before all the others.
LEMMA InFrontIs ==
  ASSUME NEW T, NEW list \in Seq(T), NEW e \in T
  PROVE  /\ <<e>> \o list \in Seq(T)
         /\ Range(<<e>> \o list) = {e} \cup Range(list)
         /\ IsInjective(list) /\ e \notin Range(list) => IsInjective(<<e>> \o list)
<1> DEFINE t == <<e>> \o list
<1>1. <<e>> \in Seq(T) /\ Len(<<e>>) = 1 /\ <<e>>[1] = e /\ Len(list) \in Nat
  OBVIOUS
<1>2. /\ t \in Seq(T) /\ Len(t) = 1 + Len(list)
      /\ \A i \in 1 .. 1 + Len(list) : t[i] = IF i <= 1 THEN <<e>>[i] ELSE list[i - 1]
  BY <1>1, ConcatAt
<1> HIDE DEF t
<1>3. DOMAIN t = 1 .. 1 + Len(list) /\ DOMAIN list = 1 .. Len(list)
  BY <1>2
<1>4. t[1] = e /\ 1 \in DOMAIN t
  BY <1>1, <1>2, <1>3
<1>5. \A i \in 1 .. Len(list) : i + 1 \in DOMAIN t /\ t[i + 1] = list[i]
  BY <1>1, <1>2, <1>3
<1>6. \A i \in DOMAIN t : i = 1 \/ (i - 1 \in 1 .. Len(list) /\ t[i] = list[i - 1])
  BY <1>1, <1>2, <1>3
<1>7. Range(t) \subseteq {e} \cup Range(list)
  BY <1>3, <1>4, <1>6 DEF Range
<1>8. {e} \cup Range(list) \subseteq Range(t)
  BY <1>3, <1>4, <1>5 DEF Range
<1>9. ASSUME IsInjective(list), e \notin Range(list) PROVE IsInjective(t)
  <2>1. \A i \in DOMAIN t : i # 1 => t[i] # e
    BY <1>3, <1>6, <1>9 DEF Range
  <2>2. ASSUME NEW i \in DOMAIN t, NEW j \in DOMAIN t, t[i] = t[j] PROVE i = j
    <3>1. CASE i = 1 \/ j = 1
      BY <1>4, <2>1, <2>2, <3>1
    <3>2. CASE i # 1 /\ j # 1
      <4>1. i - 1 = j - 1
        BY <1>3, <1>6, <1>9, <2>2, <3>2 DEF IsInjective
      <4> QED BY <1>3, <4>1
    <3> QED BY <3>1, <3>2
  <2> QED BY <2>2 DEF IsInjective
<1> QED BY <1>2, <1>7, <1>8, <1>9 DEF t

\* What comes before it may be another list.
LEMMA ConcatIs ==
  ASSUME NEW T, NEW s \in Seq(T), NEW t \in Seq(T)
  PROVE  s \o t \in Seq(T) /\ Range(s \o t) = Range(s) \cup Range(t)
<1>1. /\ s \o t \in Seq(T) /\ Len(s) \in Nat /\ Len(t) \in Nat
      /\ DOMAIN s = 1 .. Len(s) /\ DOMAIN t = 1 .. Len(t) /\ DOMAIN (s \o t) = 1 .. Len(s) + Len(t)
      /\ \A i \in 1 .. Len(s) + Len(t) : (s \o t)[i] = IF i <= Len(s) THEN s[i] ELSE t[i - Len(s)]
  OBVIOUS
<1> DEFINE st == s \o t
<1> HIDE DEF st
<1>2. \A i \in 1 .. Len(s) : i \in 1 .. Len(s) + Len(t) /\ st[i] = s[i]
  BY <1>1 DEF st
<1>3. \A i \in 1 .. Len(t) : Len(s) + i \in 1 .. Len(s) + Len(t) /\ st[Len(s) + i] = t[i]
  BY <1>1 DEF st
<1>4. \A i \in 1 .. Len(s) + Len(t) : i \in 1 .. Len(s) \/ (i - Len(s) \in 1 .. Len(t) /\ i > Len(s))
  BY <1>1
<1>5. Range(st) \subseteq Range(s) \cup Range(t)
  BY <1>1, <1>4 DEF Range, st
<1>6. DOMAIN st = 1 .. Len(s) + Len(t)
  BY <1>1 DEF st
<1>7. Range(s) \subseteq Range(st) /\ Range(t) \subseteq Range(st)
  <2>1. ASSUME NEW x \in Range(s) PROVE x \in Range(st)
    <3>1. PICK i \in 1 .. Len(s) : x = s[i]
      BY <1>1 DEF Range
    <3> QED BY <3>1, <1>2, <1>6 DEF Range
  <2>2. ASSUME NEW x \in Range(t) PROVE x \in Range(st)
    <3>1. PICK i \in 1 .. Len(t) : x = t[i]
      BY <1>1 DEF Range
    <3>2. st[Len(s) + i] = x /\ Len(s) + i \in DOMAIN st
      BY <3>1, <1>3, <1>6
    <3> QED BY <3>2 DEF Range
  <2> QED BY <2>1, <2>2
<1> QED BY <1>1, <1>5, <1>7 DEF st

-----------------------------------------------------------------------------
(* What is always true of a unit.                                          *)

IsAino(a) ==
    /\ a = [uniq |-> a.uniq, parent |-> a.parent, name |-> a.name, dir |-> a.dir,
            child |-> a.child, shlock |-> a.shlock, elock |-> a.elock,
            locked_children |-> a.locked_children, exnext_count |-> a.exnext_count]
    /\ a.uniq \in Nat /\ a.dir \in BOOLEAN /\ a.child \in Seq(Int)
    /\ a.shlock \in Nat /\ a.elock \in BOOLEAN /\ a.locked_children \in Nat

IsUnit(u) ==
    /\ u = [heap |-> u.heap, lru |-> u.lru, total_locked_ainos |-> u.total_locked_ainos,
            aino_hash |-> u.aino_hash, exkeys |-> u.exkeys, keys |-> u.keys,
            a_uniq |-> u.a_uniq, broken |-> u.broken]
    /\ u.heap = [c \in DOMAIN u.heap |-> u.heap[c]]
    /\ u.aino_hash = [h \in DOMAIN u.aino_hash |-> u.aino_hash[h]]

\* The fields, and that a_uniq bounds what was ever made.
Shape(u) ==
    /\ IsUnit(u)
    /\ u.lru \in Seq(Int) /\ u.total_locked_ainos \in Int /\ u.a_uniq \in Nat
    /\ u.keys \in [Handles -> [aino : Int, output : BOOLEAN]]
    /\ DOMAIN u.heap \subseteq 0 .. u.a_uniq
    /\ \A c \in DOMAIN u.heap : IsAino(u.heap[c])

\* The tree: a parent is a directory of the tree and lists its children.
Tree(u) ==
    /\ Root \in DOMAIN u.heap /\ u.heap[Root].dir /\ u.heap[Root].uniq = 0
    /\ \A c \in DOMAIN u.heap :
         /\ Range(u.heap[c].child) \subseteq DOMAIN u.heap
         /\ u.heap[c].uniq <= u.a_uniq
         /\ \A d \in DOMAIN u.heap : u.heap[c].uniq = u.heap[d].uniq => c = d
    /\ \A c \in DOMAIN u.heap \ {Root} :
         /\ u.heap[c].parent \in DOMAIN u.heap \ {c}
         /\ u.heap[u.heap[c].parent].dir
         /\ c \in Range(u.heap[u.heap[c].parent].child)

\* The files nobody uses.
Idle(u) == {c \in DOMAIN u.heap : ~u.heap[c].dir /\ ~InUse(u.heap[c])}

\* They may be freed, but for those that are on their way to the list.
Listed(u, but) == IsInjective(u.lru) /\ Range(u.lru) = Idle(u) \ but

Hashed(u) == \A h \in DOMAIN u.aino_hash :
    LET c == u.aino_hash[h]
    IN  c # NoAino => c \in DOMAIN u.heap /\ u.heap[c].uniq % HashSize = h

Sound(u, but) == Shape(u) /\ Tree(u) /\ Listed(u, but) /\ Hashed(u)

\* The a_inode of a lock or a handle.
Agree(a, holders, r) ==
    IF a.elock THEN a.shlock = 0 /\ holders <= 1 /\ (a.uniq \in r => holders = 0)
    ELSE IF a.uniq \in r THEN a.shlock > holders
    ELSE a.shlock = holders

KeysOn(u, c) == {h \in Handles : u.keys[h].aino = c}

\* Who holds what, locks l and over-counted uniqs r.
Counted(u, l, r) ==
    /\ l \in [Uniqs -> Nat] /\ r \subseteq Uniqs
    /\ \A uniq \in r : uniq <= u.a_uniq
    /\ \A uniq \in Uniqs : l[uniq] > 0 => \E c \in DOMAIN u.heap : u.heap[c].uniq = uniq
    /\ \A h \in Handles : u.keys[h].aino = NoAino \/ u.keys[h].aino \in DOMAIN u.heap
    /\ \A c \in DOMAIN u.heap :
         Agree(u.heap[c], l[u.heap[c].uniq] + Cardinality(KeysOn(u, c)), r)

UnitIInv ==
    /\ work \in Workloads /\ unit.a_uniq <= work.ainos
    /\ Sound(unit, {}) /\ Counted(unit, locks, recounted)

-----------------------------------------------------------------------------
(* Units that differ little.                                               *)

\* Where an a_inode is, the same as before, and what it is.
Kin(a, b) ==
    /\ IsAino(b) /\ b.uniq = a.uniq /\ b.parent = a.parent /\ b.dir = a.dir
    /\ Range(b.child) = Range(a.child)

\* The same a_inodes in the same places.
Alike(u, v) ==
    /\ IsUnit(v) /\ v.a_uniq = u.a_uniq
    /\ v.keys \in [Handles -> [aino : Int, output : BOOLEAN]]
    /\ v.total_locked_ainos \in Int
    /\ DOMAIN v.heap = DOMAIN u.heap
    /\ \A c \in DOMAIN u.heap : Kin(u.heap[c], v.heap[c])

\* Such a unit is as sound as its lists are.
LEMMA AlikeIsSound ==
  ASSUME NEW u, NEW v, NEW but, NEW more, Sound(u, but), Alike(u, v), Hashed(v),
         v.lru \in Seq(Int), Listed(v, more)
  PROVE  Sound(v, more)
<1>1. Shape(v)
  BY DEF Sound, Alike, Kin, Shape
<1>2. Tree(v)
  <2>0. DOMAIN v.heap = DOMAIN u.heap /\ v.a_uniq = u.a_uniq
    BY DEF Alike
  <2>1. \A c \in DOMAIN u.heap :
          /\ v.heap[c].uniq = u.heap[c].uniq /\ v.heap[c].dir = u.heap[c].dir
          /\ v.heap[c].parent = u.heap[c].parent
          /\ Range(v.heap[c].child) = Range(u.heap[c].child)
    BY DEF Alike, Kin
  <2>2. Tree(u)
    BY DEF Sound
  <2> QED BY <2>0, <2>1, <2>2 DEF Tree
<1> QED BY <1>1, <1>2 DEF Sound

\* The slots may name what they named, or nothing.
LEMMA AlikeIsHashed ==
  ASSUME NEW u, NEW v, Hashed(u), Alike(u, v),
         DOMAIN v.aino_hash \subseteq DOMAIN u.aino_hash,
         \A h \in DOMAIN v.aino_hash : v.aino_hash[h] \in {u.aino_hash[h], NoAino}
  PROVE  Hashed(v)
<1>1. \A c \in DOMAIN u.heap : c \in DOMAIN v.heap /\ v.heap[c].uniq = u.heap[c].uniq
  BY DEF Alike, Kin
<1> QED BY <1>1 DEF Hashed

\* What a lookup may do to a unit: free what nobody uses, and make new ones.
SameAino(a, b) ==
    /\ b.uniq = a.uniq /\ b.parent = a.parent /\ b.dir = a.dir
    /\ b.shlock = a.shlock /\ b.elock = a.elock

Keeps(u, v) ==
    /\ v.keys = u.keys /\ u.a_uniq <= v.a_uniq
    /\ \A c \in DOMAIN u.heap : u.heap[c].dir \/ InUse(u.heap[c]) => c \in DOMAIN v.heap
    /\ \A c \in DOMAIN v.heap :
         \/ c \in DOMAIN u.heap /\ SameAino(u.heap[c], v.heap[c])
         \/ /\ c > u.a_uniq /\ v.heap[c].uniq = c
            /\ v.heap[c].shlock = 0 /\ ~v.heap[c].elock

\* Nothing changed, nothing lost.
LEMMA KeepsItself ==
  ASSUME NEW u, NEW but, Sound(u, but)
  PROVE  Keeps(u, u)
BY DEF Keeps, SameAino, Sound, Shape

\* What is kept over two steps is kept over both.
LEMMA KeepsOn ==
  ASSUME NEW u, NEW v, NEW w, NEW but, NEW more, NEW rest,
         Sound(u, but), Sound(v, more), Sound(w, rest), Keeps(u, v), Keeps(v, w)
  PROVE  Keeps(u, w)
<1>0. /\ u.a_uniq \in Nat /\ v.a_uniq \in Nat /\ w.a_uniq \in Nat
      /\ DOMAIN u.heap \subseteq 0 .. u.a_uniq /\ DOMAIN w.heap \subseteq 0 .. w.a_uniq
  BY DEF Sound, Shape
<1>1. w.keys = u.keys /\ u.a_uniq <= w.a_uniq
  BY <1>0 DEF Keeps
<1>2. \A c \in DOMAIN u.heap : u.heap[c].dir \/ InUse(u.heap[c]) => c \in DOMAIN w.heap
  <2> SUFFICES ASSUME NEW c \in DOMAIN u.heap, u.heap[c].dir \/ InUse(u.heap[c])
               PROVE  c \in DOMAIN w.heap
    OBVIOUS
  <2>1. c \in DOMAIN v.heap /\ c <= u.a_uniq /\ c \in Nat
    BY <1>0 DEF Keeps
  <2>2. SameAino(u.heap[c], v.heap[c])
    BY <1>0, <2>1 DEF Keeps
  <2>3. v.heap[c].dir \/ InUse(v.heap[c])
    BY <2>2 DEF SameAino, InUse
  <2> QED BY <2>1, <2>3 DEF Keeps
<1>3. ASSUME NEW c \in DOMAIN w.heap
      PROVE  \/ c \in DOMAIN u.heap /\ SameAino(u.heap[c], w.heap[c])
             \/ /\ c > u.a_uniq /\ w.heap[c].uniq = c
                /\ w.heap[c].shlock = 0 /\ ~w.heap[c].elock
  <2>0. c \in Nat
    BY <1>0
  <2>1. CASE c \in DOMAIN v.heap /\ SameAino(v.heap[c], w.heap[c])
    <3>1. \/ c \in DOMAIN u.heap /\ SameAino(u.heap[c], v.heap[c])
          \/ /\ c > u.a_uniq /\ v.heap[c].uniq = c
             /\ v.heap[c].shlock = 0 /\ ~v.heap[c].elock
      BY <2>1 DEF Keeps
    <3> QED BY <2>1, <3>1 DEF SameAino
  <2>2. CASE /\ c > v.a_uniq /\ w.heap[c].uniq = c
             /\ w.heap[c].shlock = 0 /\ ~w.heap[c].elock
    <3>1. c > u.a_uniq
      BY <1>0, <2>0, <2>2 DEF Keeps
    <3> QED BY <2>2, <3>1
  <2> QED BY <2>1, <2>2 DEF Keeps
<1> QED BY <1>1, <1>2, <1>3 DEF Keeps

\* Nobody holds what was freed, or what is new.
LEMMA KeepsCounts ==
  ASSUME NEW u, NEW v, NEW but, NEW more, NEW l, NEW r, Sound(u, but), Sound(v, more),
         Keeps(u, v), Counted(u, l, r), v.a_uniq <= MaxAinos
  PROVE  Counted(v, l, r)
<1>0. /\ u.a_uniq \in Nat /\ v.a_uniq \in Nat /\ MaxAinos \in Nat /\ u.a_uniq <= v.a_uniq
      /\ DOMAIN u.heap \subseteq 0 .. u.a_uniq /\ DOMAIN v.heap \subseteq 0 .. v.a_uniq
      /\ \A c \in DOMAIN u.heap : IsAino(u.heap[c])
      /\ \A c \in DOMAIN v.heap : IsAino(v.heap[c]) /\ v.heap[c].uniq <= v.a_uniq
      /\ \A c \in DOMAIN u.heap : u.heap[c].uniq <= u.a_uniq
      /\ v.keys = u.keys
  BY Bounds DEF Sound, Shape, Tree, Keeps
<1>1. \A uniq \in Uniqs : l[uniq] \in Nat
  BY DEF Counted
<1>2. \A c : KeysOn(v, c) = KeysOn(u, c) /\ Cardinality(KeysOn(u, c)) \in Nat
  <2>1. \A c : KeysOn(u, c) \subseteq Handles
    BY DEF KeysOn
  <2>2. IsFiniteSet(Handles)
    BY Bounds
  <2>3. \A c : IsFiniteSet(KeysOn(u, c))
    BY <2>1, <2>2, FS_Subset
  <2>4. \A c : KeysOn(v, c) = KeysOn(u, c)
    BY <1>0 DEF KeysOn
  <2> QED BY <2>3, <2>4, FS_CardinalityType
\* What is held stays.
<1>3. ASSUME NEW c \in DOMAIN u.heap,
             l[u.heap[c].uniq] > 0 \/ KeysOn(u, c) # {}
      PROVE  c \in DOMAIN v.heap /\ v.heap[c].uniq = u.heap[c].uniq
  <2>1. Agree(u.heap[c], l[u.heap[c].uniq] + Cardinality(KeysOn(u, c)), r)
    BY DEF Counted
  <2>2. u.heap[c].uniq \in Uniqs /\ u.heap[c].shlock \in Nat
    <3>1. u.heap[c].uniq \in Nat /\ u.heap[c].shlock \in Nat /\ u.heap[c].uniq <= u.a_uniq
      BY <1>0 DEF IsAino
    <3>2. u.a_uniq <= MaxAinos
      BY <1>0
    <3> QED BY <1>0, <3>1, <3>2 DEF Uniqs
  <2>3. KeysOn(u, c) # {} => Cardinality(KeysOn(u, c)) > 0
    <3>1. IsFiniteSet(KeysOn(u, c))
      <4>1. KeysOn(u, c) \subseteq Handles /\ IsFiniteSet(Handles)
        BY Bounds DEF KeysOn
      <4> QED BY <4>1, FS_Subset
    <3>2. Cardinality(KeysOn(u, c)) = 0 <=> KeysOn(u, c) = {}
      BY <3>1, FS_EmptySet
    <3> QED BY <3>2, <1>2
  <2>4. l[u.heap[c].uniq] + Cardinality(KeysOn(u, c)) > 0
    BY <1>1, <1>2, <1>3, <2>2, <2>3
  <2>5. InUse(u.heap[c])
    BY <1>1, <1>2, <2>1, <2>2, <2>4 DEF Agree, InUse
  <2>6. c \in DOMAIN v.heap
    BY <2>5 DEF Keeps
  <2>7. ~ c > u.a_uniq
    BY <1>0
  <2> QED BY <2>6, <2>7 DEF Keeps, SameAino
<1>4. \A uniq \in r : uniq <= v.a_uniq
  <2>1. \A uniq \in r : uniq \in Uniqs /\ uniq <= u.a_uniq
    BY DEF Counted
  <2> QED BY <1>0, <2>1 DEF Uniqs
<1>5. \A uniq \in Uniqs : l[uniq] > 0 => \E c \in DOMAIN v.heap : v.heap[c].uniq = uniq
  BY <1>3 DEF Counted
<1>6. \A h \in Handles : v.keys[h].aino = NoAino \/ v.keys[h].aino \in DOMAIN v.heap
  <2> SUFFICES ASSUME NEW h \in Handles, u.keys[h].aino # NoAino
               PROVE  u.keys[h].aino \in DOMAIN v.heap
    BY <1>0
  <2>1. u.keys[h].aino \in DOMAIN u.heap /\ h \in KeysOn(u, u.keys[h].aino)
    BY DEF Counted, KeysOn
  <2> QED BY <2>1, <1>3
<1>7. ASSUME NEW c \in DOMAIN v.heap
      PROVE  Agree(v.heap[c], l[v.heap[c].uniq] + Cardinality(KeysOn(v, c)), r)
  <2>1. CASE c \in DOMAIN u.heap /\ SameAino(u.heap[c], v.heap[c])
    <3>1. Agree(u.heap[c], l[u.heap[c].uniq] + Cardinality(KeysOn(u, c)), r)
      BY <2>1 DEF Counted
    <3> QED BY <2>1, <3>1, <1>2 DEF Agree, SameAino
  <2>2. CASE /\ c > u.a_uniq /\ v.heap[c].uniq = c
             /\ v.heap[c].shlock = 0 /\ ~v.heap[c].elock
    <3>1. c \in Uniqs /\ c \notin DOMAIN u.heap
      BY <1>0, <2>2 DEF Uniqs
    <3>2. l[c] = 0
      <4>1. \A d \in DOMAIN u.heap : u.heap[d].uniq # c
        BY <1>0, <2>2 DEF IsAino
      <4>2. ~ l[c] > 0
        BY <3>1, <4>1 DEF Counted
      <4> QED BY <1>1, <3>1, <4>2
    <3>3. KeysOn(v, c) = {}
      <4>1. c # NoAino
        BY <1>0 DEF NoAino
      <4>2. \A h \in Handles : u.keys[h].aino # c
        BY <3>1, <4>1 DEF Counted
      <4> QED BY <1>0, <4>2 DEF KeysOn
    <3>4. c \notin r
      BY <1>0, <2>2 DEF Counted
    <3>5. Cardinality(KeysOn(v, c)) = 0
      BY <3>3, FS_EmptySet
    <3> QED BY <2>2, <3>2, <3>4, <3>5 DEF Agree
  <2> QED BY <2>1, <2>2 DEF Keeps
<1> QED BY <1>4, <1>5, <1>6, <1>7 DEF Counted

-----------------------------------------------------------------------------
(* Freeing.                                                                *)

WithLru(u, list) == [u EXCEPT !.lru = list]

Relists(u, v, list) ==
    /\ Alike(u, v) /\ v.heap = u.heap /\ v.keys = u.keys /\ v.aino_hash = u.aino_hash
    /\ v.lru = list /\ v.a_uniq = u.a_uniq

\* Another list of what may be freed.
LEMMA Relisted ==
  ASSUME NEW u, NEW but, NEW more, NEW list \in Seq(Int), Sound(u, but),
         IsInjective(list), Range(list) = Idle(u) \ more,
         NEW v, v = WithLru(u, list)
  PROVE  Sound(v, more) /\ Relists(u, v, list)
<1>1. /\ v.heap = u.heap /\ v.keys = u.keys /\ v.aino_hash = u.aino_hash /\ v.lru = list
      /\ v.a_uniq = u.a_uniq /\ v.total_locked_ainos = u.total_locked_ainos
  BY DEF Sound, Shape, IsUnit, WithLru
<1>2. IsUnit(v)
  BY <1>1 DEF Sound, Shape, IsUnit, WithLru
<1>3. Alike(u, v)
  BY <1>1, <1>2 DEF Alike, Kin, Sound, Shape
<1>4. Hashed(v) /\ Listed(v, more)
  BY <1>1 DEF Sound, Hashed, Listed, Idle
<1>5. Sound(v, more)
  BY <1>1, <1>3, <1>4, AlikeIsSound
<1> QED BY <1>1, <1>3, <1>5 DEF Relists

\* Off the list: they may not be freed any more, or are on their way back.
LEMMA TakenOff ==
  ASSUME NEW u, NEW but, NEW gone, Sound(u, but), NEW v, v = WithLru(u, Without(u.lru, gone))
  PROVE  Sound(v, but \cup gone) /\ Relists(u, v, Without(u.lru, gone))
<1> DEFINE list == Without(u.lru, gone)
           more == but \cup gone
<1>1. u.lru \in Seq(Int) /\ IsInjective(u.lru) /\ Range(u.lru) = Idle(u) \ but
  BY DEF Sound, Shape, Listed
<1>2. list \in Seq(Int) /\ Range(list) = Range(u.lru) \ gone /\ IsInjective(list)
  BY <1>1, WithoutIs
<1>3. v = WithLru(u, list)
  OBVIOUS
<1>4. Range(list) = Idle(u) \ more
  BY <1>1, <1>2
<1> HIDE DEF list, more
<1>5. Sound(v, more) /\ Relists(u, v, list)
  BY <1>2, <1>3, <1>4, Relisted
<1> QED BY <1>5 DEF list, more

\* de_recycle_aino only takes its a_inode off the list.
LEMMA DeRecycled ==
  ASSUME NEW u, NEW but, NEW c, Sound(u, but), NEW v, v = de_recycle_aino(u, c)
  PROVE  Sound(v, but \cup {c}) /\ Relists(u, v, Without(u.lru, {c}))
<1>1. v = WithLru(u, Without(u.lru, {c}))
  BY DEF de_recycle_aino, WithLru
<1> QED BY <1>1, TakenOff

\* gone may be freed: neither the root nor the parent of one that stays.
Leaves(u, gone) ==
    /\ Root \notin gone
    /\ \A c \in DOMAIN u.heap \ ({Root} \cup gone) : u.heap[c].parent \notin gone

\* Slots of the hash table may have been cleared.
Slots(u, v) ==
    /\ DOMAIN v.aino_hash = DOMAIN u.aino_hash
    /\ \A h \in DOMAIN u.aino_hash : v.aino_hash[h] \in {u.aino_hash[h], NoAino}

Freed(u, v, gone) ==
    /\ Slots(u, v)
    /\ DOMAIN v.heap = DOMAIN u.heap \ gone
    /\ v.keys = u.keys /\ v.lru = u.lru /\ v.a_uniq = u.a_uniq
    /\ \A c \in DOMAIN v.heap :
          /\ SameAino(u.heap[c], v.heap[c])
          /\ Range(v.heap[c].child) = Range(u.heap[c].child) \ gone

\* The a_inodes in gone are freed: none may be on the list.
LEMMA Disposed ==
  ASSUME NEW u, NEW but, NEW gone, Sound(u, but), gone \subseteq but, Leaves(u, gone),
         NEW v, v = dispose_ainos(u, gone)
  PROVE  Sound(v, but) /\ Sound(v, but \ gone) /\ Freed(u, v, gone)
<1> DEFINE heap == [d \in DOMAIN u.heap \ gone |-> Unlinked(u.heap[d], gone)]
           hash == [h \in DOMAIN u.aino_hash |->
                      IF u.aino_hash[h] \in gone /\ u.heap[u.aino_hash[h]].uniq % HashSize = h
                      THEN NoAino ELSE u.aino_hash[h]]
           keys == [i \in DOMAIN u.exkeys |-> Relieved(u.exkeys[i], gone)]
<1>1. v = [u EXCEPT !.heap = heap, !.aino_hash = hash, !.exkeys = keys]
  BY DEF dispose_ainos
<1>2. /\ DOMAIN heap = DOMAIN u.heap \ gone
      /\ \A d \in DOMAIN heap : heap[d] = Unlinked(u.heap[d], gone)
      /\ heap = [d \in DOMAIN heap |-> heap[d]]
  OBVIOUS
<1>3. /\ DOMAIN hash = DOMAIN u.aino_hash /\ hash = [h \in DOMAIN hash |-> hash[h]]
      /\ \A h \in DOMAIN hash :
           hash[h] = IF u.aino_hash[h] \in gone /\ u.heap[u.aino_hash[h]].uniq % HashSize = h
                     THEN NoAino ELSE u.aino_hash[h]
  OBVIOUS
<1> HIDE DEF heap, hash, keys
<1>4. /\ v.heap = heap /\ v.aino_hash = hash /\ v.keys = u.keys /\ v.lru = u.lru
      /\ v.a_uniq = u.a_uniq /\ v.total_locked_ainos = u.total_locked_ainos
      /\ v = [heap |-> v.heap, lru |-> v.lru, total_locked_ainos |-> v.total_locked_ainos,
              aino_hash |-> v.aino_hash, exkeys |-> v.exkeys, keys |-> v.keys,
              a_uniq |-> v.a_uniq, broken |-> v.broken]
  BY <1>1 DEF Sound, Shape, IsUnit
<1>5. ASSUME NEW d \in DOMAIN heap
      PROVE  /\ IsAino(heap[d]) /\ SameAino(u.heap[d], heap[d])
             /\ Range(heap[d].child) = Range(u.heap[d].child) \ gone
  <2> DEFINE list == Without(u.heap[d].child, gone)
  <2>1. IsAino(u.heap[d])
    BY <1>2 DEF Sound, Shape
  <2>2. list \in Seq(Int) /\ Range(list) = Range(u.heap[d].child) \ gone
    BY <2>1, WithoutIs DEF IsAino
  <2> HIDE DEF list
  <2>3. heap[d] = [u.heap[d] EXCEPT !.child = list]
    BY <1>2 DEF list, Unlinked
  <2>4. IsAino(heap[d]) /\ SameAino(u.heap[d], heap[d]) /\ heap[d].child = list
    BY <2>1, <2>2, <2>3 DEF IsAino, SameAino
  <2> QED BY <2>2, <2>4
<1>6. Shape(v)
  <2>1. IsUnit(v)
    BY <1>2, <1>3, <1>4 DEF IsUnit
  <2> QED BY <1>2, <1>4, <1>5, <2>1 DEF Sound, Shape
<1>7. Tree(v)
  <2>1. Tree(u)
    BY DEF Sound
  <2>2. Root \in DOMAIN heap
    BY <1>2, <2>1 DEF Tree, Leaves
  <2>3. \A c \in DOMAIN heap :
          /\ c \in DOMAIN u.heap /\ c \notin gone
          /\ heap[c].uniq = u.heap[c].uniq /\ heap[c].dir = u.heap[c].dir
          /\ heap[c].parent = u.heap[c].parent
          /\ Range(heap[c].child) = Range(u.heap[c].child) \ gone
    BY <1>2, <1>5 DEF SameAino
  <2>4. \A c \in DOMAIN heap \ {Root} : u.heap[c].parent \in DOMAIN heap \ {c}
    BY <1>2, <2>1, <2>3 DEF Tree, Leaves
  <2>5. \A c \in DOMAIN heap :
         /\ Range(heap[c].child) \subseteq DOMAIN heap
         /\ heap[c].uniq <= v.a_uniq
         /\ \A d \in DOMAIN heap : heap[c].uniq = heap[d].uniq => c = d
    <3> SUFFICES ASSUME NEW c \in DOMAIN heap
                 PROVE  /\ Range(heap[c].child) \subseteq DOMAIN heap
                        /\ heap[c].uniq <= v.a_uniq
                        /\ \A d \in DOMAIN heap : heap[c].uniq = heap[d].uniq => c = d
      OBVIOUS
    <3>1. Range(heap[c].child) \subseteq DOMAIN heap
      <4>1. Range(u.heap[c].child) \subseteq DOMAIN u.heap
        BY <2>1, <2>3 DEF Tree
      <4>2. Range(heap[c].child) = Range(u.heap[c].child) \ gone
        BY <2>3
      <4>3. DOMAIN heap = DOMAIN u.heap \ gone
        BY <1>2
      <4> QED BY <4>1, <4>2, <4>3
    <3>2. heap[c].uniq <= v.a_uniq
      BY <1>4, <2>1, <2>3 DEF Tree
    <3>3. \A d \in DOMAIN heap : heap[c].uniq = heap[d].uniq => c = d
      BY <2>1, <2>3 DEF Tree
    <3> QED BY <3>1, <3>2, <3>3
  <2>6. heap[Root].dir /\ heap[Root].uniq = 0
    BY <2>1, <2>2, <2>3 DEF Tree
  <2>7. \A c \in DOMAIN heap \ {Root} :
         /\ heap[c].parent \in DOMAIN heap \ {c} /\ heap[heap[c].parent].dir
         /\ c \in Range(heap[heap[c].parent].child)
    BY <2>1, <2>3, <2>4 DEF Tree
  <2> QED BY <1>4, <2>2, <2>5, <2>6, <2>7 DEF Tree
<1>8. Idle(v) = Idle(u) \ gone
  BY <1>2, <1>4, <1>5 DEF Idle, InUse, SameAino
<1>9. Listed(v, but) /\ Listed(v, but \ gone)
  <2>1. IsInjective(u.lru) /\ Range(u.lru) = Idle(u) \ but
    BY DEF Sound, Listed
  <2>2. Idle(u) \ but = (Idle(u) \ gone) \ but /\ Idle(u) \ but = (Idle(u) \ gone) \ (but \ gone)
    OBVIOUS
  <2> QED BY <1>4, <1>8, <2>1, <2>2 DEF Listed
<1>10. Hashed(v)
  <2>1. ASSUME NEW h \in DOMAIN hash, hash[h] # NoAino
        PROVE  hash[h] \in DOMAIN heap /\ heap[hash[h]].uniq % HashSize = h
    <3>1. u.aino_hash[h] # NoAino => u.aino_hash[h] \in DOMAIN u.heap /\ u.heap[u.aino_hash[h]].uniq % HashSize = h
      BY <1>3, <2>1 DEF Sound, Hashed
    <3>2. hash[h] = u.aino_hash[h] /\ u.aino_hash[h] \notin gone
      BY <1>3, <2>1, <3>1
    <3>3. hash[h] \in DOMAIN heap
      BY <1>2, <2>1, <3>1, <3>2
    <3>4. heap[hash[h]].uniq = u.heap[hash[h]].uniq
      BY <1>5, <3>3 DEF SameAino
    <3> QED BY <2>1, <3>1, <3>2, <3>3, <3>4
  <2> QED BY <1>4, <2>1 DEF Hashed
<1>11. Freed(u, v, gone)
  BY <1>2, <1>3, <1>4, <1>5 DEF Freed, Slots
<1> QED BY <1>6, <1>7, <1>9, <1>10, <1>11 DEF Sound

-----------------------------------------------------------------------------
(* The reaping loop.                                                       *)

\* Only files of the list were freed.
Reaped(u, v) ==
    /\ Slots(u, v) /\ v.keys = u.keys /\ v.a_uniq = u.a_uniq
    /\ DOMAIN v.heap \subseteq DOMAIN u.heap /\ Range(v.lru) \subseteq Range(u.lru)
    /\ \A c \in DOMAIN u.heap \ Range(u.lru) : c \in DOMAIN v.heap
    /\ \A c \in DOMAIN v.heap : SameAino(u.heap[c], v.heap[c])

\* Reaping twice is reaping.
LEMMA ReapedOn ==
  ASSUME NEW u, NEW v, NEW w, Reaped(u, v), Reaped(v, w)
  PROVE  Reaped(u, w)
<1>1. \A c \in DOMAIN u.heap \ Range(u.lru) : c \in DOMAIN v.heap \ Range(v.lru)
  BY DEF Reaped
<1>2. \A c \in DOMAIN w.heap : SameAino(u.heap[c], w.heap[c])
  BY DEF Reaped, SameAino
<1>3. Slots(u, w)
  BY DEF Reaped, Slots
<1> QED BY <1>1, <1>2, <1>3 DEF Reaped

\* Reaping keeps whatever is in use.
LEMMA ReapedKeeps ==
  ASSUME NEW u, NEW v, NEW but, Sound(u, but), Reaped(u, v)
  PROVE  Keeps(u, v)
<1>1. Range(u.lru) \subseteq Idle(u)
  BY DEF Sound, Listed
<1>2. \A c \in DOMAIN u.heap : u.heap[c].dir \/ InUse(u.heap[c]) => c \in DOMAIN v.heap
  BY <1>1 DEF Idle, Reaped
<1>3. u.a_uniq <= v.a_uniq
  BY DEF Sound, Shape, Reaped
<1> QED BY <1>2, <1>3 DEF Reaped, Keeps

\* The list is the same, turned.
LEMMA Rotated ==
  ASSUME NEW T, NEW list \in Seq(T), NEW k \in 0 .. Len(list)
  PROVE  LET turned == Rotate(list, k)
         IN  /\ turned \in Seq(T) /\ Range(turned) = Range(list)
             /\ IsInjective(list) => IsInjective(turned)
<1> DEFINE n == Len(list)
           turned == Rotate(list, k)
<1>0. n \in Nat /\ DOMAIN list = 1 .. n /\ k \in Nat /\ k <= n
  OBVIOUS
<1>1. /\ turned \in Seq(T) /\ Len(turned) = n /\ DOMAIN turned = 1 .. n
      /\ \A i \in 1 .. n : turned[i] = IF i <= k THEN list[n - k + i] ELSE list[i - k]
  <2> DEFINE a == SubSeq(list, n - k + 1, n)
             b == SubSeq(list, 1, n - k)
  <2>1. a \in Seq(T) /\ Len(a) = k /\ \A i \in 1 .. k : a[i] = list[n - k + i]
    BY <1>0
  <2>2. b \in Seq(T) /\ Len(b) = n - k /\ \A i \in 1 .. n - k : b[i] = list[i]
    <3>1. PICK m \in 0 .. n : m = n - k
      <4>1. n - k \in 0 .. n
        BY <1>0
      <4> QED BY <4>1
    <3>2. SubSeq(list, 1, m) \in Seq(T) /\ Len(SubSeq(list, 1, m)) = m
      BY <1>0
    <3>3. \A i \in 1 .. m : SubSeq(list, 1, m)[i] = list[i]
      BY <1>0
    <3> QED BY <3>1, <3>2, <3>3
  <2> HIDE DEF a, b
  <2>3. /\ a \o b \in Seq(T) /\ Len(a \o b) = n
        /\ \A i \in 1 .. n : (a \o b)[i] = IF i <= k THEN a[i] ELSE b[i - k]
    <3>1. /\ a \o b \in Seq(T) /\ Len(a \o b) = Len(a) + Len(b)
          /\ \A i \in 1 .. Len(a) + Len(b) : (a \o b)[i] = IF i <= Len(a) THEN a[i] ELSE b[i - Len(a)]
      BY <2>1, <2>2, ConcatAt
    <3>2. Len(a) + Len(b) = n
      BY <1>0, <2>1, <2>2
    <3> QED BY <3>1, <3>2, <2>1
  <2>4. \A i \in 1 .. n : (a \o b)[i] = IF i <= k THEN list[n - k + i] ELSE list[i - k]
    BY <1>0, <2>1, <2>2, <2>3
  <2>5. turned = a \o b
    BY DEF Rotate, a, b
  <2>6. DOMAIN (a \o b) = 1 .. n
    BY <2>3
  <2> HIDE DEF turned
  <2> QED BY <2>3, <2>4, <2>5, <2>6
<1> HIDE DEF turned
<1>2. Range(turned) \subseteq Range(list)
  <2> SUFFICES ASSUME NEW i \in 1 .. n PROVE turned[i] \in Range(list)
    BY <1>1 DEF Range
  <2>1. CASE i <= k
    <3>1. n - k + i \in 1 .. n
      BY <1>0, <2>1
    <3> QED BY <1>0, <1>1, <2>1, <3>1 DEF Range
  <2>2. CASE ~ i <= k
    <3>1. i - k \in 1 .. n
      BY <1>0, <2>2
    <3> QED BY <1>0, <1>1, <2>2, <3>1 DEF Range
  <2> QED BY <2>1, <2>2
<1>3. Range(list) \subseteq Range(turned)
  <2> SUFFICES ASSUME NEW i \in 1 .. n PROVE list[i] \in Range(turned)
    BY <1>0 DEF Range
  <2>1. CASE i <= n - k
    <3>1. i + k \in 1 .. n /\ ~ i + k <= k /\ i + k - k = i
      BY <1>0, <2>1
    <3>2. turned[i + k] = list[i]
      BY <1>1, <3>1
    <3> QED BY <1>1, <3>1, <3>2 DEF Range
  <2>2. CASE ~ i <= n - k
    <3>1. i - (n - k) \in 1 .. n /\ i - (n - k) <= k /\ n - k + (i - (n - k)) = i
      BY <1>0, <2>2
    <3>2. turned[i - (n - k)] = list[i]
      BY <1>1, <3>1
    <3> QED BY <1>1, <3>1, <3>2 DEF Range
  <2> QED BY <2>1, <2>2
<1>4. ASSUME IsInjective(list) PROVE IsInjective(turned)
  <2> DEFINE at(i) == IF i <= k THEN n - k + i ELSE i - k
  <2>1. \A i \in 1 .. n : at(i) \in 1 .. n /\ turned[i] = list[at(i)]
    BY <1>0, <1>1
  <2>2. \A i \in 1 .. n, j \in 1 .. n : at(i) = at(j) => i = j
    BY <1>0
  <2>3. \A i \in 1 .. n, j \in 1 .. n : list[i] = list[j] => i = j
    BY <1>0, <1>4 DEF IsInjective
  <2> HIDE DEF at
  <2> QED BY <1>1, <2>1, <2>2, <2>3 DEF IsInjective
<1> QED BY <1>1, <1>2, <1>3, <1>4 DEF turned

\* Some of the listed files are freed.
LEMMA Swept ==
  ASSUME NEW u, NEW but, NEW gone, Sound(u, but), gone \subseteq Range(u.lru),
         NEW w, w = Sweep(u, gone)
  PROVE  Sound(w, but) /\ Reaped(u, w)
<1> DEFINE more == but \cup gone
<1>v. PICK v : v = WithLru(u, Without(u.lru, gone))
  OBVIOUS
<1>0. w = dispose_ainos(v, gone)
  BY <1>v DEF Sweep, WithLru
<1>1. /\ Sound(v, more)
      /\ v.heap = u.heap /\ v.keys = u.keys /\ v.lru = Without(u.lru, gone) /\ v.a_uniq = u.a_uniq
      /\ v.aino_hash = u.aino_hash
  <2>1. Sound(v, more) /\ Relists(u, v, Without(u.lru, gone))
    BY ONLY <1>v, Sound(u, but), TakenOff
  <2> QED BY <2>1 DEF Relists
<1>2. Range(u.lru) = Idle(u) \ but
  BY DEF Sound, Listed
<1>4. Leaves(v, gone)
  BY <1>1, <1>2 DEF Sound, Tree, Idle, Leaves
<1>5. more \ gone = but /\ gone \subseteq more
  BY <1>2
<1> HIDE DEF more
<1>6. Sound(w, more \ gone) /\ Freed(v, w, gone)
  BY ONLY <1>0, <1>1, <1>4, <1>5, Disposed
<1>7. Range(w.lru) \subseteq Range(u.lru)
  <2>1. u.lru \in Seq(Int)
    BY DEF Sound, Shape
  <2>2. Range(Without(u.lru, gone)) = Range(u.lru) \ gone
    BY <2>1, WithoutIs
  <2> QED BY <1>1, <1>6, <2>2 DEF Freed
<1>8. Reaped(u, w)
  BY <1>1, <1>2, <1>6, <1>7 DEF Reaped, Freed, Slots
<1> QED BY <1>5, <1>6, <1>8

\* Reaping may free nothing.
LEMMA ReapsNothing ==
  ASSUME NEW u
  PROVE  Reaped(u, u)
BY DEF Reaped, SameAino, Slots

\* The list is turned.
LEMMA Turned ==
  ASSUME NEW u, NEW but, NEW dir, NEW n, Sound(u, but), NEW r, r = TurnFrom(u, dir, n)
  PROVE  /\ r = [u |-> r.u, reaped |-> r.reaped, stuck |-> r.stuck]
         /\ Sound(r.u, but) /\ Reaped(u, r.u)
<1> DEFINE other == {k \in 1..Len(u.lru) : u.heap[Last(Rotate(u.lru, k))].parent # dir}
           least == CHOOSE k \in other : \A j \in other : k <= j
<1>0. u.lru \in Seq(Int) /\ IsInjective(u.lru) /\ Range(u.lru) = Idle(u) \ but
  BY DEF Sound, Shape, Listed
<1>1. /\ r.u = IF other = {} THEN u ELSE [u EXCEPT !.lru = Rotate(@, least)]
      /\ r = [u |-> r.u, reaped |-> r.reaped, stuck |-> r.stuck]
  BY DEF TurnFrom
<1>2. other \in SUBSET Nat
  BY <1>0
<1>3. other \subseteq 0 .. Len(u.lru)
  BY <1>0
<1> HIDE DEF other
<1>4. CASE other = {}
  BY <1>1, <1>4, ReapsNothing
<1>5. CASE other # {}
  <2>1. \E k \in other : \A j \in other : k <= j
    BY <1>2, <1>5, Least
  <2>2. least \in 0 .. Len(u.lru)
    BY <1>3, <2>1
  <2> HIDE DEF least
  <2> DEFINE list == Rotate(u.lru, least)
  <2>3. list \in Seq(Int) /\ Range(list) = Range(u.lru) /\ IsInjective(list)
    BY <1>0, <2>2, Rotated
  <2>4. r.u = WithLru(u, list)
    BY <1>1, <1>5 DEF WithLru
  <2> HIDE DEF list
  <2>5. Range(list) = Idle(u) \ but
    BY <1>0, <2>3
  <2>6. Sound(r.u, but) /\ Relists(u, r.u, list)
    BY <2>3, <2>4, <2>5, Relisted
  <2>7. Reaped(u, r.u)
    BY <2>3, <2>6 DEF Reaped, SameAino, Relists, Slots
  <2> QED BY <1>1, <2>6, <2>7
<1> QED BY <1>4, <1>5

\* One pass.
LEMMA PassReaps ==
  ASSUME NEW r, NEW but, Sound(r.u, but), r = [u |-> r.u, reaped |-> r.reaped, stuck |-> r.stuck],
         NEW p, p = ReapPass(r)
  PROVE  /\ p = [u |-> p.u, reaped |-> p.reaped, stuck |-> p.stuck]
         /\ Sound(p.u, but) /\ Reaped(r.u, p.u)
<1> DEFINE dir == r.u.heap[Last(r.u.lru)].parent
           gone == IF r.u.heap[dir].locked_children > 0 THEN {} ELSE Unused(r.u, dir)
           n == r.reaped + Cardinality(gone)
           v == Sweep(r.u, gone)
<1>1. p = IF r.u.lru = <<>> THEN [r EXCEPT !.stuck = TRUE] ELSE TurnFrom(v, dir, n)
  BY DEF ReapPass
<1>2. gone \subseteq Range(r.u.lru)
  BY DEF Unused
<1> HIDE DEF gone, n, dir
<1>3. Sound(v, but) /\ Reaped(r.u, v)
  BY <1>2, Swept
<1> HIDE DEF v
<1>4. CASE r.u.lru = <<>>
  <2>1. p = [u |-> r.u, reaped |-> r.reaped, stuck |-> TRUE]
    BY <1>1, <1>4
  <2> QED BY <2>1, ReapsNothing
<1>5. CASE r.u.lru # <<>>
  <2> DEFINE t == TurnFrom(v, dir, n)
  <2>1. /\ t = [u |-> t.u, reaped |-> t.reaped, stuck |-> t.stuck]
        /\ Sound(t.u, but) /\ Reaped(v, t.u)
    BY <1>3, Turned
  <2>2. p = t
    BY <1>1, <1>5
  <2> HIDE DEF t
  <2>3. Reaped(r.u, p.u)
    BY <1>3, <2>1, <2>2, ReapedOn
  <2> QED BY <2>1, <2>2, <2>3
<1> QED BY <1>4, <1>5

\* The unit says what it did.
Marked(u, v) ==
    /\ v.heap = u.heap /\ v.keys = u.keys /\ v.aino_hash = u.aino_hash
    /\ v.lru = u.lru /\ v.a_uniq = u.a_uniq

\* The mark of undefined behaviour is no part of the structure.
LEMMA MarkedIs ==
  ASSUME NEW u, NEW but, NEW text, Sound(u, but), NEW v, v = [u EXCEPT !.broken = text]
  PROVE  Sound(v, but) /\ Marked(u, v)
<1>1. Marked(u, v) /\ v.total_locked_ainos = u.total_locked_ainos
  BY DEF Sound, Shape, IsUnit, Marked
<1>2. IsUnit(v)
  BY <1>1 DEF Sound, Shape, IsUnit, Marked
<1>3. Sound(v, but)
  BY <1>1, <1>2 DEF Sound, Shape, Tree, Listed, Idle, Hashed, Marked
<1> QED BY <1>1, <1>3

\* The next pass, unless the loop has ended.
Pass(r) == IF r.stuck \/ r.reaped >= ReapCount THEN r ELSE ReapPass(r)

\* The loop, up to n passes.
Passes(f, u, n) ==
  f = [k \in 0 .. n |-> IF k = 0 THEN [u |-> u, reaped |-> 0, stuck |-> FALSE] ELSE Pass(f[k - 1])]

\* The passes of the reaping loop are a function, for every number of them.
LEMMA PassesExist ==
  ASSUME NEW u, NEW n \in Nat
  PROVE  \E f : Passes(f, u, n)
<1> DEFINE Bad == {m \in Nat : ~ \E f : Passes(f, u, m)}
<1>1. 0 \notin Bad
  <2> DEFINE f == [k \in 0 .. 0 |-> [u |-> u, reaped |-> 0, stuck |-> FALSE]]
  <2>1. f = [k \in 0 .. 0 |-> IF k = 0 THEN [u |-> u, reaped |-> 0, stuck |-> FALSE] ELSE Pass(f[k - 1])]
    OBVIOUS
  <2> HIDE DEF f
  <2>2. Passes(f, u, 0)
    BY <2>1 DEF Passes
  <2> QED BY <2>2
<1>2. ASSUME NEW m \in Bad PROVE m = 0 \/ m - 1 \in Bad
  <2> SUFFICES ASSUME m # 0, m - 1 \notin Bad PROVE FALSE
    OBVIOUS
  <2>1. m \in Nat /\ m - 1 \in Nat
    OBVIOUS
  <2>2. PICK f : Passes(f, u, m - 1)
    BY <2>1
  <2> DEFINE g == [k \in 0 .. m |-> IF k = m THEN Pass(f[m - 1]) ELSE f[k]]
  <2>3. \A k \in 0 .. m - 1 : g[k] = f[k]
    BY <2>1
  <2>4. g[m] = Pass(f[m - 1]) /\ g = [k \in 0 .. m |-> g[k]]
    BY <2>1
  <2> HIDE DEF g
  <2>5. ASSUME NEW k \in 0 .. m
        PROVE  g[k] = IF k = 0 THEN [u |-> u, reaped |-> 0, stuck |-> FALSE] ELSE Pass(g[k - 1])
    <3>1. CASE k = m
      <4>1. m - 1 \in 0 .. m - 1
        BY <2>1
      <4> QED BY <2>1, <2>3, <2>4, <3>1, <4>1
    <3>2. CASE k # m
      <4>1. k \in 0 .. m - 1 /\ (k # 0 => k - 1 \in 0 .. m - 1)
        BY <2>1, <3>2
      <4>2. f[k] = IF k = 0 THEN [u |-> u, reaped |-> 0, stuck |-> FALSE] ELSE Pass(f[k - 1])
        BY <2>2, <4>1 DEF Passes
      <4> QED BY <2>3, <4>1, <4>2
    <3> QED BY <3>1, <3>2
  <2>6. g = [k \in 0 .. m |-> IF k = 0 THEN [u |-> u, reaped |-> 0, stuck |-> FALSE] ELSE Pass(g[k - 1])]
    BY <2>4, <2>5
  <2>7. Passes(g, u, m)
    BY <2>6 DEF Passes
  <2> QED BY <2>7
<1>3. Bad \in SUBSET Nat
  OBVIOUS
<1>4. Bad = {}
  <2> HIDE DEF Bad
  <2> QED BY <1>1, <1>2, <1>3, NoFirst
<1> QED BY <1>4

\* The whole loop.
LEMMA ReapReaps ==
  ASSUME NEW u, NEW but, Sound(u, but), NEW v, v = Reap(u)
  PROVE  Sound(v, but) /\ Reaped(u, v)
<1> DEFINE pass == CHOOSE f : Passes(f, u, MaxAinos)
           Good(r) == /\ r = [u |-> r.u, reaped |-> r.reaped, stuck |-> r.stuck]
                      /\ Sound(r.u, but) /\ Reaped(u, r.u)
           Bad == {k \in 0 .. MaxAinos : ~ Good(pass[k])}
<1>0. MaxAinos \in Nat
  BY Bounds
<1>1. Passes(pass, u, MaxAinos)
  BY <1>0, PassesExist
<1>2. v = EndReaping(pass[MaxAinos])
  BY DEF Reap, Passes, Pass
<1>3. \A k \in 0 .. MaxAinos :
        pass[k] = IF k = 0 THEN [u |-> u, reaped |-> 0, stuck |-> FALSE] ELSE Pass(pass[k - 1])
  BY <1>1 DEF Passes
<1> HIDE DEF pass
<1>4. ASSUME NEW r, Good(r) PROVE Good(Pass(r))
  <2>1. CASE Pass(r) = r
    BY <1>4, <2>1
  <2>2. CASE Pass(r) = ReapPass(r)
    <3>1. PICK p : p = ReapPass(r)
      OBVIOUS
    <3>2. /\ p = [u |-> p.u, reaped |-> p.reaped, stuck |-> p.stuck]
          /\ Sound(p.u, but) /\ Reaped(r.u, p.u)
      BY ONLY <1>4, <3>1, PassReaps
    <3>3. Reaped(u, p.u)
      BY <1>4, <3>2, ReapedOn
    <3> QED BY <2>2, <3>1, <3>2, <3>3
  <2> QED BY <2>1, <2>2 DEF Pass
<1>5. 0 \notin Bad
  <2>1. pass[0] = [u |-> u, reaped |-> 0, stuck |-> FALSE]
    <3>1. 0 \in 0 .. MaxAinos
      BY <1>0
    <3> QED BY <1>3, <3>1
  <2>2. Good(pass[0])
    BY <2>1, ReapsNothing
  <2> QED BY <2>2
<1>6. ASSUME NEW k \in Bad PROVE k = 0 \/ k - 1 \in Bad
  <2> SUFFICES ASSUME k # 0, k - 1 \notin Bad PROVE FALSE
    OBVIOUS
  <2>1. k \in 0 .. MaxAinos /\ k - 1 \in 0 .. MaxAinos
    BY <1>0
  <2> HIDE DEF Good
  <2>2. Good(pass[k - 1])
    BY <2>1
  <2>3. Good(pass[k])
    BY <1>3, <1>4, <2>1, <2>2
  <2> QED BY <2>3
<1>7. Bad \in SUBSET Nat
  OBVIOUS
<1>8. Bad = {}
  <2> HIDE DEF Bad
  <2> QED BY <1>5, <1>6, <1>7, NoFirst
<1>9. Good(pass[MaxAinos])
  <2>1. MaxAinos \in 0 .. MaxAinos
    BY <1>0
  <2> HIDE DEF Good
  <2> QED BY <1>8, <2>1
<1>10. PICK w : w = pass[MaxAinos].u /\ Sound(w, but) /\ Reaped(u, w)
  BY <1>9
<1>11. v = w \/ v = [w EXCEPT !.broken = "reaping"]
  BY <1>2, <1>10 DEF EndReaping
<1>12. CASE v = [w EXCEPT !.broken = "reaping"]
  <2>1. Sound(v, but) /\ Marked(w, v)
    BY <1>10, <1>12, MarkedIs
  <2>2. Reaped(w, v)
    BY <2>1, ReapsNothing DEF Reaped, Marked, SameAino, Slots
  <2> QED BY <1>10, <2>1, <2>2, ReapedOn
<1> QED BY <1>10, <1>11, <1>12

\* c goes to the front of the list, if nobody uses it.
LEMMA Recycled ==
  ASSUME NEW u, NEW c, Sound(u, {c}), c \in DOMAIN u.heap, NEW v, v = recycle_aino(u, c)
  PROVE  /\ Sound(v, {}) /\ c \in DOMAIN v.heap
         /\ v.keys = u.keys /\ v.a_uniq = u.a_uniq
         /\ DOMAIN v.heap \subseteq DOMAIN u.heap
         /\ \A d \in DOMAIN u.heap : u.heap[d].dir \/ InUse(u.heap[d]) => d \in DOMAIN v.heap
         /\ \A d \in DOMAIN v.heap : SameAino(u.heap[d], v.heap[d])
         /\ Slots(u, v)
<1>0. /\ u.lru \in Seq(Int) /\ IsInjective(u.lru) /\ Range(u.lru) = Idle(u) \ {c}
      /\ c \in Int
  BY DEF Sound, Shape, Listed
<1>1. CASE u.heap[c].dir \/ InUse(u.heap[c])
  <2>1. v = u
    BY <1>1 DEF recycle_aino
  <2>2. c \notin Idle(u)
    BY <1>1 DEF Idle
  <2>3. Listed(u, {})
    BY <1>0, <2>2 DEF Listed
  <2>4. Sound(u, {})
    BY <2>3 DEF Sound
  <2> QED BY <2>1, <2>4 DEF SameAino, Slots
<1>2. CASE ~ (u.heap[c].dir \/ InUse(u.heap[c]))
  <2>1. PICK r : r = IF Len(u.lru) > CacheLimit + u.total_locked_ainos THEN Reap(u) ELSE u
    OBVIOUS
  <2>2. Sound(r, {c}) /\ Reaped(u, r)
    <3>1. CASE r = u
      BY <3>1, ReapsNothing
    <3>2. CASE r = Reap(u)
      BY ONLY <3>2, Sound(u, {c}), ReapReaps
    <3> QED BY <2>1, <3>1, <3>2
  <2>3. c \notin Range(u.lru) /\ c \in DOMAIN r.heap
    BY <1>0, <2>2 DEF Reaped
  <2> DEFINE list == <<c>> \o r.lru
  <2>4. v = WithLru(r, list)
    BY <1>2, <2>1 DEF recycle_aino, WithLru
  <2>5. r.lru \in Seq(Int) /\ IsInjective(r.lru) /\ Range(r.lru) = Idle(r) \ {c}
    BY <2>2 DEF Sound, Shape, Listed
  <2>6. list \in Seq(Int) /\ Range(list) = {c} \cup Range(r.lru) /\ IsInjective(list)
    BY <1>0, <2>5, InFrontIs
  <2>7. c \in Idle(r)
    BY <1>2, <2>2, <2>3 DEF Idle, Reaped, SameAino, InUse
  <2>8. Range(list) = Idle(r) \ {}
    BY <2>5, <2>6, <2>7
  <2> HIDE DEF list
  <2>9. Sound(v, {}) /\ Relists(r, v, list)
    BY <2>2, <2>4, <2>6, <2>8, Relisted
  <2>10. Keeps(u, r)
    BY <2>2, ReapedKeeps
  <2> QED BY <2>2, <2>3, <2>9, <2>10 DEF Relists, Reaped, Keeps, Slots
<1> QED BY <1>1, <1>2

-----------------------------------------------------------------------------
(* Finding and making.                                                     *)

\* The new a_inode c, a child of dir that nobody uses yet.
Added(u, v, c, dir, isdir) ==
    /\ Keeps(u, v) /\ c = u.a_uniq + 1 /\ v.a_uniq = c /\ c \in DOMAIN v.heap
    /\ v.heap[c].uniq = c /\ v.heap[c].parent = dir /\ v.heap[c].dir = isdir
    /\ v.heap[c].shlock = 0 /\ ~v.heap[c].elock
    /\ \A d \in DOMAIN v.heap \ {Root} : v.heap[d].parent # c
    /\ \A h \in DOMAIN v.aino_hash : v.aino_hash[h] # c
    /\ c \notin DOMAIN u.heap

\* create_child_aino adds an unused a_inode to a directory.
LEMMA ChildAdded ==
  ASSUME NEW u, NEW dir \in DOMAIN u.heap, NEW name, NEW isdir \in BOOLEAN,
         Sound(u, {}), u.heap[dir].dir, NEW f, f = AddChild(u, dir, name, isdir)
  PROVE  /\ f = [u |-> f.u, at |-> f.at, err |-> "ok"]
         /\ Sound(f.u, {}) /\ Added(u, f.u, f.at, dir, isdir)
<1> DEFINE c == u.a_uniq + 1
           scanned == IF u.heap[dir].exnext_count > 0 THEN 1 ELSE 0
           heap == [d \in DOMAIN u.heap \cup {c} |->
                      IF d = c THEN NewAino(c, dir, name, isdir)
                      ELSE IF d = dir THEN InFront(u.heap[d], c, scanned)
                      ELSE u.heap[d]]
<1>1. PICK v : v = [u EXCEPT !.a_uniq = c, !.total_locked_ainos = @ + scanned, !.heap = heap]
  OBVIOUS
<1>2. f = [u |-> recycle_aino(v, c), at |-> c, err |-> "ok"]
  BY <1>1 DEF AddChild, Found
<1>3. scanned \in {0, 1}
  OBVIOUS
<1>4. /\ u.a_uniq \in Nat /\ c \in Nat /\ c > u.a_uniq /\ c # Root
      /\ DOMAIN u.heap \subseteq 0 .. u.a_uniq /\ c \notin DOMAIN u.heap
      /\ u.total_locked_ainos \in Int
      /\ \A d \in DOMAIN u.heap : d \in 0 .. c /\ d # c /\ IsAino(u.heap[d])
  BY DEF Sound, Shape, Root
<1>5. /\ DOMAIN heap = DOMAIN u.heap \cup {c} /\ heap = [d \in DOMAIN heap |-> heap[d]]
      /\ heap[c] = NewAino(c, dir, name, isdir)
      /\ \A d \in DOMAIN u.heap :
           heap[d] = IF d = dir THEN InFront(u.heap[d], c, scanned) ELSE u.heap[d]
  BY <1>4
<1> HIDE DEF scanned, heap
<1>6. /\ v.heap = heap /\ v.keys = u.keys /\ v.aino_hash = u.aino_hash /\ v.lru = u.lru
      /\ v.a_uniq = c /\ v.total_locked_ainos \in Int
      /\ v = [heap |-> v.heap, lru |-> v.lru, total_locked_ainos |-> v.total_locked_ainos,
              aino_hash |-> v.aino_hash, exkeys |-> v.exkeys, keys |-> v.keys,
              a_uniq |-> v.a_uniq, broken |-> v.broken]
  <2> DEFINE total == u.total_locked_ainos + scanned
  <2>1. total \in Int
    BY <1>3, <1>4
  <2>2. v = [u EXCEPT !.a_uniq = c, !.total_locked_ainos = total, !.heap = heap]
    BY <1>1
  <2>3. IsUnit(u)
    BY DEF Sound, Shape
  <2> HIDE DEF total, c
  <2> QED BY <2>1, <2>2, <2>3 DEF IsUnit
<1> HIDE DEF c
<1>7. /\ IsAino(heap[c]) /\ heap[c].uniq = c /\ heap[c].parent = dir /\ heap[c].dir = isdir
      /\ heap[c].shlock = 0 /\ heap[c].elock = FALSE /\ heap[c].child = <<>>
  <2>1. <<>> \in Seq(Int)
    OBVIOUS
  <2> QED BY <1>4, <1>5, <2>1 DEF NewAino, IsAino
<1>8. ASSUME NEW d \in DOMAIN u.heap
      PROVE  /\ IsAino(heap[d]) /\ SameAino(u.heap[d], heap[d])
             /\ Range(heap[d].child) = IF d = dir THEN {c} \cup Range(u.heap[d].child)
                                       ELSE Range(u.heap[d].child)
  <2>1. IsAino(u.heap[d])
    BY <1>4
  <2>2. CASE d # dir
    BY <1>5, <2>1, <2>2 DEF SameAino
  <2>3. CASE d = dir
    <3> DEFINE list == <<c>> \o u.heap[d].child
    <3>1. list \in Seq(Int) /\ Range(list) = {c} \cup Range(u.heap[d].child)
      <4>1. c \in Int /\ u.heap[d].child \in Seq(Int)
        BY <1>4, <2>1 DEF IsAino
      <4> QED BY <4>1, InFrontIs
    <3> HIDE DEF list
    <3>2. heap[d] = [u.heap[d] EXCEPT !.child = list, !.locked_children = @ + scanned]
      BY <1>5, <2>3 DEF InFront, list
    <3>3. u.heap[d].locked_children + scanned \in Nat
      BY <1>3, <2>1 DEF IsAino
    <3>4. IsAino(heap[d]) /\ SameAino(u.heap[d], heap[d]) /\ heap[d].child = list
      BY <2>1, <3>1, <3>2, <3>3 DEF IsAino, SameAino
    <3> QED BY <2>3, <3>1, <3>4
  <2> QED BY <2>2, <2>3
<1>9. Shape(v)
  <2>1. IsUnit(v)
    BY <1>5, <1>6 DEF Sound, Shape, IsUnit
  <2>2. u.lru \in Seq(Int) /\ u.keys \in [Handles -> [aino : Int, output : BOOLEAN]]
    BY DEF Sound, Shape
  <2>3. DOMAIN heap \subseteq 0 .. c
    BY <1>4, <1>5
  <2>4. \A d \in DOMAIN heap : IsAino(heap[d])
    BY <1>5, <1>7, <1>8
  <2> QED BY <1>4, <1>6, <2>1, <2>2, <2>3, <2>4 DEF Shape
<1>10. Tree(u)
  BY DEF Sound
<1>11. Tree(v)
  <2>1. \A d \in DOMAIN u.heap :
          /\ d \in DOMAIN heap /\ d # c
          /\ heap[d].uniq = u.heap[d].uniq /\ heap[d].dir = u.heap[d].dir
          /\ heap[d].parent = u.heap[d].parent
    BY <1>4, <1>5, <1>8 DEF SameAino
  <2>2. Root \in DOMAIN heap /\ heap[Root].dir /\ heap[Root].uniq = 0
    BY <1>10, <2>1 DEF Tree
  <2>3. \A d \in DOMAIN u.heap : u.heap[d].uniq \in Nat /\ u.heap[d].uniq <= u.a_uniq
    BY <1>4, <1>10 DEF Tree, IsAino
  <2>4. ASSUME NEW d \in DOMAIN heap
        PROVE  /\ Range(heap[d].child) \subseteq DOMAIN heap
               /\ heap[d].uniq <= c
               /\ \A e \in DOMAIN heap : heap[d].uniq = heap[e].uniq => d = e
    <3>1. CASE d = c
      <4>1. Range(heap[c].child) = {}
        BY <1>7 DEF Range
      <4>2. \A e \in DOMAIN u.heap : heap[e].uniq # c
        BY <1>4, <2>1, <2>3
      <4> QED BY <1>4, <1>5, <1>7, <3>1, <4>1, <4>2
    <3>2. CASE d \in DOMAIN u.heap
      <4>1. Range(u.heap[d].child) \subseteq DOMAIN u.heap
        BY <1>10, <3>2 DEF Tree
      <4>2. Range(heap[d].child) \subseteq DOMAIN heap
        BY <1>5, <1>8, <3>2, <4>1
      <4>3. heap[d].uniq <= c /\ heap[d].uniq # c
        BY <1>4, <2>1, <2>3, <3>2
      <4>4. \A e \in DOMAIN u.heap : heap[d].uniq = heap[e].uniq => d = e
        BY <1>10, <2>1, <3>2 DEF Tree
      <4> QED BY <1>5, <1>7, <4>2, <4>3, <4>4
    <3> QED BY <1>5, <3>1, <3>2
  <2>5. ASSUME NEW d \in DOMAIN heap \ {Root}
        PROVE  /\ heap[d].parent \in DOMAIN heap \ {d}
               /\ heap[heap[d].parent].dir
               /\ d \in Range(heap[heap[d].parent].child)
    <3>1. CASE d = c
      BY <1>4, <1>5, <1>7, <1>8, <2>1, <3>1
    <3>2. CASE d \in DOMAIN u.heap
      <4>1. /\ u.heap[d].parent \in DOMAIN u.heap \ {d}
            /\ u.heap[u.heap[d].parent].dir
            /\ d \in Range(u.heap[u.heap[d].parent].child)
        BY <1>10, <3>2 DEF Tree
      <4> QED BY <1>8, <2>1, <3>2, <4>1
    <3> QED BY <1>5, <3>1, <3>2
  <2> QED BY <1>6, <2>2, <2>4, <2>5 DEF Tree
<1>12. Listed(v, {c})
  <2>1. Idle(v) \ {c} = Idle(u)
    BY <1>4, <1>5, <1>6, <1>8 DEF Idle, InUse, SameAino
  <2>2. IsInjective(u.lru) /\ Range(u.lru) = Idle(u)
    BY DEF Sound, Listed
  <2> QED BY <1>6, <2>1, <2>2 DEF Listed
<1>13. Hashed(v)
  <2>1. \A d \in DOMAIN u.heap : d \in DOMAIN heap /\ heap[d].uniq = u.heap[d].uniq
    BY <1>5, <1>8 DEF SameAino
  <2> QED BY <1>6, <2>1 DEF Sound, Hashed
<1>14. Sound(v, {c})
  BY <1>9, <1>11, <1>12, <1>13 DEF Sound
<1>15. PICK w : w = recycle_aino(v, c)
  OBVIOUS
<1>16. c \in DOMAIN v.heap
  BY <1>5, <1>6
<1>17. /\ Sound(w, {}) /\ c \in DOMAIN w.heap
       /\ w.keys = v.keys /\ w.a_uniq = v.a_uniq
       /\ DOMAIN w.heap \subseteq DOMAIN v.heap
       /\ \A d \in DOMAIN v.heap : v.heap[d].dir \/ InUse(v.heap[d]) => d \in DOMAIN w.heap
       /\ \A d \in DOMAIN w.heap : SameAino(v.heap[d], w.heap[d])
       /\ Slots(v, w)
  BY ONLY <1>14, <1>15, <1>16, Recycled
<1>18. Keeps(u, w)
  <2>1. w.keys = u.keys /\ u.a_uniq <= w.a_uniq
    BY <1>4, <1>6, <1>17
  <2>2. \A d \in DOMAIN u.heap : u.heap[d].dir \/ InUse(u.heap[d]) => d \in DOMAIN w.heap
    BY <1>5, <1>6, <1>8, <1>17 DEF SameAino, InUse
  <2>3. ASSUME NEW d \in DOMAIN w.heap
        PROVE  \/ d \in DOMAIN u.heap /\ SameAino(u.heap[d], w.heap[d])
               \/ /\ d > u.a_uniq /\ w.heap[d].uniq = d
                  /\ w.heap[d].shlock = 0 /\ ~w.heap[d].elock
    <3>1. CASE d = c
      BY <1>4, <1>6, <1>7, <1>17, <3>1 DEF SameAino
    <3>2. CASE d \in DOMAIN u.heap
      BY <1>6, <1>8, <1>17, <3>2 DEF SameAino
    <3> QED BY <1>5, <1>6, <1>17, <3>1, <3>2
  <2> QED BY <2>1, <2>2, <2>3 DEF Keeps
<1>19. \A d \in DOMAIN w.heap \ {Root} : w.heap[d].parent # c
  <2> SUFFICES ASSUME NEW d \in DOMAIN w.heap \ {Root} PROVE w.heap[d].parent # c
    OBVIOUS
  <2>1. w.heap[d].parent = heap[d].parent /\ d \in DOMAIN heap
    BY <1>6, <1>17 DEF SameAino
  <2>2. CASE d = c
    BY <1>4, <1>7, <2>1, <2>2
  <2>3. CASE d \in DOMAIN u.heap
    <3>1. u.heap[d].parent \in DOMAIN u.heap
      BY <1>10, <2>3 DEF Tree
    <3> QED BY <1>4, <1>8, <2>1, <2>3, <3>1 DEF SameAino
  <2> QED BY <1>5, <2>1, <2>2, <2>3
<1>20. w.heap[c].uniq = c /\ w.heap[c].parent = dir /\ w.heap[c].dir = isdir
       /\ w.heap[c].shlock = 0 /\ ~w.heap[c].elock
  BY <1>6, <1>7, <1>17 DEF SameAino
<1>21. \A h \in DOMAIN w.aino_hash : w.aino_hash[h] # c
  <2>1. \A h \in DOMAIN u.aino_hash : u.aino_hash[h] = NoAino \/ u.aino_hash[h] \in DOMAIN u.heap
    BY DEF Sound, Hashed
  <2>2. c # NoAino
    BY <1>4 DEF NoAino
  <2> QED BY <1>4, <1>6, <1>17, <2>1, <2>2 DEF Slots
<1>22. Added(u, w, c, dir, isdir)
  BY <1>4, <1>6, <1>17, <1>18, <1>19, <1>20, <1>21 DEF Added, c
<1> QED BY <1>2, <1>15, <1>17, <1>22

\* A search ends at an a_inode of the unit, or at none.
Search(u, f) ==
    /\ f = [u |-> f.u, at |-> f.at, err |-> f.err]
    /\ Sound(f.u, {}) /\ Keeps(u, f.u)
    /\ f.at \in DOMAIN f.u.heap \/ (f.at = NoAino /\ f.err # "ok")
    /\ f.err = "absent" /\ f.at # NoAino => f.u.heap[f.at].dir

\* A child.
LEMMA ChildLookedUp ==
  ASSUME NEW u, NEW dir \in DOMAIN u.heap, NEW name, Sound(u, {}),
         NEW f, f = lookup_child_aino(u, dir, name)
  PROVE  /\ Search(u, f)
         /\ f.err = "absent" => f.u = u /\ u.heap[dir].dir
<1> DEFINE known == {c \in Range(u.heap[dir].child) : u.heap[c].name = name}
           path == Append(Path(u)[dir], name)
           isdir == disk[path] = "dir"
<1>1. f = IF ~u.heap[dir].dir THEN Found(u, NoAino, "wrong_type")
          ELSE IF known # {}
          THEN Found(u, Head(Only(u.heap[dir].child, known)), "ok")
          ELSE IF path \in DOMAIN disk THEN AddChild(u, dir, name, isdir)
          ELSE Found(u, NoAino, "absent")
  BY DEF lookup_child_aino
<1>2. isdir \in BOOLEAN
  OBVIOUS
<1>3. Keeps(u, u)
  BY KeepsItself
<1>4. known \subseteq Range(u.heap[dir].child)
  OBVIOUS
<1> HIDE DEF known, path, isdir
<1>5. CASE f = Found(u, NoAino, "wrong_type")
  BY <1>3, <1>5 DEF Found, Search
<1>6. CASE f = Found(u, Head(Only(u.heap[dir].child, known)), "ok") /\ known # {}
  <2> DEFINE list == Only(u.heap[dir].child, known)
  <2>1. u.heap[dir].child \in Seq(Int) /\ Range(u.heap[dir].child) \subseteq DOMAIN u.heap
    BY DEF Sound, Shape, Tree, IsAino
  <2>2. list \in Seq(Int) /\ Range(list) = Range(u.heap[dir].child) \cap known
    BY <2>1, OnlyIs
  <2> HIDE DEF list
  <2>3. Range(list) # {}
    BY <1>4, <1>6, <2>2
  <2>4. Head(list) \in Range(list)
    BY <2>2, <2>3 DEF Range
  <2>5. Head(list) \in DOMAIN u.heap
    BY <2>1, <2>2, <2>4
  <2> QED BY <1>3, <1>6, <2>5 DEF Found, Search, list
<1>7. CASE f = AddChild(u, dir, name, isdir) /\ u.heap[dir].dir
  <2>1. /\ f = [u |-> f.u, at |-> f.at, err |-> "ok"]
        /\ Sound(f.u, {}) /\ Added(u, f.u, f.at, dir, isdir)
    BY ONLY <1>2, <1>7, dir \in DOMAIN u.heap, Sound(u, {}), ChildAdded
  <2>2. Keeps(u, f.u) /\ f.at \in DOMAIN f.u.heap
    BY <2>1 DEF Added
  <2>3. f.err = "ok" /\ f = [u |-> f.u, at |-> f.at, err |-> f.err]
    BY <2>1
  <2> QED BY <2>1, <2>2, <2>3 DEF Search
<1>8. CASE f = Found(u, NoAino, "absent") /\ u.heap[dir].dir
  BY <1>3, <1>8 DEF Found, Search
<1> QED BY <1>1, <1>5, <1>6, <1>7, <1>8

\* A search from where another ended.
LEMMA SearchOn ==
  ASSUME NEW u, NEW v, NEW f, Sound(u, {}), Sound(v, {}), Keeps(u, v), Search(v, f)
  PROVE  Search(u, f)
<1>1. Keeps(u, f.u)
  BY KeepsOn DEF Search
<1> QED BY <1>1 DEF Search

\* The next name of a path.
WalkOn(prev, rel, i) ==
    LET next == lookup_child_aino(prev.u, prev.at, rel[i])
    IN  IF prev.err # "ok" THEN [prev EXCEPT !.at = NoAino]
        ELSE IF next.err = "absent" /\ i = Len(rel) THEN [next EXCEPT !.at = prev.at]
        ELSE next

\* The first n names.
Walks(f, u, base, rel, n) ==
  f = [k \in 0 .. n |-> IF k = 0 THEN Found(u, base, "ok") ELSE WalkOn(f[k - 1], rel, k)]

\* The walk along a path is a function, for every number of names.
LEMMA WalksExist ==
  ASSUME NEW u, NEW base, NEW rel, NEW n \in Nat
  PROVE  \E f : Walks(f, u, base, rel, n)
<1> DEFINE Bad == {m \in Nat : ~ \E f : Walks(f, u, base, rel, m)}
<1>1. 0 \notin Bad
  <2> DEFINE f == [k \in 0 .. 0 |-> Found(u, base, "ok")]
  <2>1. f = [k \in 0 .. 0 |-> IF k = 0 THEN Found(u, base, "ok") ELSE WalkOn(f[k - 1], rel, k)]
    OBVIOUS
  <2> HIDE DEF f
  <2>2. Walks(f, u, base, rel, 0)
    BY <2>1 DEF Walks
  <2> QED BY <2>2
<1>2. ASSUME NEW m \in Bad PROVE m = 0 \/ m - 1 \in Bad
  <2> SUFFICES ASSUME m # 0, m - 1 \notin Bad PROVE FALSE
    OBVIOUS
  <2>1. m \in Nat /\ m - 1 \in Nat
    OBVIOUS
  <2>2. PICK f : Walks(f, u, base, rel, m - 1)
    BY <2>1
  <2> DEFINE g == [k \in 0 .. m |-> IF k = m THEN WalkOn(f[m - 1], rel, m) ELSE f[k]]
  <2>3. \A k \in 0 .. m - 1 : g[k] = f[k]
    BY <2>1
  <2>4. g[m] = WalkOn(f[m - 1], rel, m) /\ g = [k \in 0 .. m |-> g[k]]
    BY <2>1
  <2> HIDE DEF g
  <2>5. ASSUME NEW k \in 0 .. m
        PROVE  g[k] = IF k = 0 THEN Found(u, base, "ok") ELSE WalkOn(g[k - 1], rel, k)
    <3>1. CASE k = m
      <4>1. m - 1 \in 0 .. m - 1
        BY <2>1
      <4> QED BY <2>1, <2>3, <2>4, <3>1, <4>1
    <3>2. CASE k # m
      <4>1. k \in 0 .. m - 1 /\ (k # 0 => k - 1 \in 0 .. m - 1)
        BY <2>1, <3>2
      <4>2. f[k] = IF k = 0 THEN Found(u, base, "ok") ELSE WalkOn(f[k - 1], rel, k)
        BY <2>2, <4>1 DEF Walks
      <4> QED BY <2>3, <4>1, <4>2
    <3> QED BY <3>1, <3>2
  <2>6. g = [k \in 0 .. m |-> IF k = 0 THEN Found(u, base, "ok") ELSE WalkOn(g[k - 1], rel, k)]
    BY <2>4, <2>5
  <2>7. Walks(g, u, base, rel, m)
    BY <2>6 DEF Walks
  <2> QED BY <2>7
<1>3. Bad \in SUBSET Nat
  OBVIOUS
<1>4. Bad = {}
  <2> HIDE DEF Bad
  <2> QED BY <1>1, <1>2, <1>3, NoFirst
<1> QED BY <1>4

\* One more name of the path keeps what the walk has found so far.
LEMMA WalksOn ==
  ASSUME NEW u, NEW prev, NEW rel, NEW i, Sound(u, {}), Search(u, prev),
         NEW f, f = WalkOn(prev, rel, i)
  PROVE  Search(u, f)
<1>1. CASE prev.err # "ok"
  <2>1. f = [prev EXCEPT !.at = NoAino]
    BY <1>1 DEF WalkOn
  <2>2. f.u = prev.u /\ f.at = NoAino /\ f.err = prev.err /\ f = [u |-> f.u, at |-> f.at, err |-> f.err]
    BY <2>1 DEF Search
  <2> QED BY <1>1, <2>2 DEF Search
<1>2. CASE prev.err = "ok"
  <2>1. prev.at \in DOMAIN prev.u.heap /\ Sound(prev.u, {}) /\ Keeps(u, prev.u)
    BY <1>2 DEF Search
  <2>2. PICK next : next = lookup_child_aino(prev.u, prev.at, rel[i])
    OBVIOUS
  <2>3. PICK name : name = rel[i]
    OBVIOUS
  <2>4. /\ Search(prev.u, next)
        /\ next.err = "absent" => next.u = prev.u /\ prev.u.heap[prev.at].dir
    <3>1. next = lookup_child_aino(prev.u, prev.at, name)
      BY <2>2, <2>3
    <3> QED BY ONLY <2>1, <3>1, ChildLookedUp
  <2>5. Search(u, next)
    BY ONLY <2>1, <2>4, Sound(u, {}), SearchOn, Search(prev.u, next), Sound(prev.u, {})
  <2>6. CASE f = next
    BY <2>5, <2>6
  <2>7. CASE f = [next EXCEPT !.at = prev.at] /\ next.err = "absent"
    <3>1. f.u = prev.u /\ f.at = prev.at /\ f.err = "absent" /\ f = [u |-> f.u, at |-> f.at, err |-> f.err]
      BY <2>4, <2>7 DEF Search
    <3> QED BY <2>1, <2>4, <2>7, <3>1 DEF Search
  <2> QED BY <1>2, <2>2, <2>6, <2>7 DEF WalkOn
<1> QED BY <1>1, <1>2

\* A path.
LEMMA PathLookedUp ==
  ASSUME NEW u, NEW base \in DOMAIN u.heap, NEW rel \in Seq(Names), Sound(u, {}),
         NEW f, f = get_aino(u, base, rel)
  PROVE  Search(u, f)
<1> DEFINE walk == CHOOSE g : Walks(g, u, base, rel, Len(rel))
           Bad == {k \in 0 .. Len(rel) : ~ Search(u, walk[k])}
<1>0. Len(rel) \in Nat
  OBVIOUS
<1>1. Walks(walk, u, base, rel, Len(rel))
  BY <1>0, WalksExist
<1>2. f = walk[Len(rel)]
  BY DEF get_aino, Walks, WalkOn
<1>3. \A k \in 0 .. Len(rel) :
        walk[k] = IF k = 0 THEN Found(u, base, "ok") ELSE WalkOn(walk[k - 1], rel, k)
  BY <1>1 DEF Walks
<1> HIDE DEF walk
<1>4. 0 \notin Bad
  <2>1. 0 \in 0 .. Len(rel)
    BY <1>0
  <2>2. walk[0] = Found(u, base, "ok")
    BY <1>3, <2>1
  <2>3. Keeps(u, u)
    BY KeepsItself
  <2>4. Search(u, walk[0])
    BY <2>2, <2>3 DEF Search, Found
  <2> QED BY <2>4
<1>5. ASSUME NEW k \in Bad PROVE k = 0 \/ k - 1 \in Bad
  <2> SUFFICES ASSUME k # 0, k - 1 \notin Bad PROVE FALSE
    OBVIOUS
  <2>1. k \in 0 .. Len(rel) /\ k - 1 \in 0 .. Len(rel)
    BY <1>0
  <2>2. Search(u, walk[k - 1])
    BY <2>1
  <2>3. walk[k] = WalkOn(walk[k - 1], rel, k)
    BY <1>3, <2>1
  <2>4. PICK prev, next : prev = walk[k - 1] /\ next = walk[k]
    OBVIOUS
  <2>5. next = WalkOn(prev, rel, k) /\ Search(u, prev)
    BY <2>2, <2>3, <2>4
  <2>6. Search(u, next)
    BY ONLY <2>5, Sound(u, {}), WalksOn
  <2> QED BY <2>4, <2>6
<1>6. Bad \in SUBSET Nat
  OBVIOUS
<1>7. Bad = {}
  <2> HIDE DEF Bad
  <2> QED BY <1>4, <1>5, <1>6, NoFirst
<1>8. Len(rel) \in 0 .. Len(rel)
  BY <1>0
<1> QED BY <1>2, <1>7, <1>8

-----------------------------------------------------------------------------
(* Units whose a_inodes count other scans, or order their children.        *)

Rescanned(u, v) ==
    /\ v.keys = u.keys /\ v.aino_hash = u.aino_hash /\ v.lru = u.lru /\ v.a_uniq = u.a_uniq
    /\ DOMAIN v.heap = DOMAIN u.heap
    /\ \A c \in DOMAIN u.heap : Kin(u.heap[c], v.heap[c]) /\ SameAino(u.heap[c], v.heap[c])

\* Counting a scan in or out leaves the structure sound.
LEMMA RescannedIs ==
  ASSUME NEW u, NEW v, NEW but, Sound(u, but), IsUnit(v), v.total_locked_ainos \in Int,
         Rescanned(u, v)
  PROVE  Sound(v, but) /\ Keeps(u, v)
<1>1. Alike(u, v)
  BY DEF Sound, Shape, Rescanned, Alike
<1>2. Hashed(v)
  BY <1>1, AlikeIsHashed DEF Sound, Rescanned
<1>3. Listed(v, but)
  <2>1. Idle(v) = Idle(u)
    BY DEF Idle, Rescanned, SameAino, InUse
  <2> QED BY <2>1 DEF Sound, Listed, Rescanned
<1>4. v.lru \in Seq(Int)
  BY DEF Sound, Shape, Rescanned
<1>5. Sound(v, but)
  BY <1>1, <1>2, <1>3, <1>4, AlikeIsSound
<1>6. Keeps(u, v)
  BY DEF Sound, Shape, Rescanned, Keeps
<1> QED BY <1>5, <1>6

\* A unit with another heap of the same a_inodes.
WithHeap(u, heap) == [u EXCEPT !.heap = heap]

\* So does whatever leaves each a_inode in its place with its counts.
LEMMA HeapChanged ==
  ASSUME NEW u, NEW but, NEW heap, Sound(u, but), DOMAIN heap = DOMAIN u.heap,
         heap = [d \in DOMAIN heap |-> heap[d]],
         \A c \in DOMAIN u.heap : Kin(u.heap[c], heap[c]) /\ SameAino(u.heap[c], heap[c]),
         NEW v, v = WithHeap(u, heap)
  PROVE  Sound(v, but) /\ Keeps(u, v) /\ Rescanned(u, v)
<1>1. /\ v.heap = heap /\ v.keys = u.keys /\ v.aino_hash = u.aino_hash /\ v.lru = u.lru
      /\ v.a_uniq = u.a_uniq /\ v.total_locked_ainos = u.total_locked_ainos
      /\ v = [heap |-> v.heap, lru |-> v.lru, total_locked_ainos |-> v.total_locked_ainos,
              aino_hash |-> v.aino_hash, exkeys |-> v.exkeys, keys |-> v.keys,
              a_uniq |-> v.a_uniq, broken |-> v.broken]
  BY DEF Sound, Shape, IsUnit, WithHeap
<1>2. IsUnit(v) /\ v.total_locked_ainos \in Int
  BY <1>1 DEF Sound, Shape, IsUnit
<1>3. Rescanned(u, v)
  BY <1>1 DEF Rescanned
<1> QED BY <1>2, <1>3, RescannedIs

\* To reorder a directory's children changes nothing else of it.
LEMMA FirstStep ==
  ASSUME NEW a, NEW way, IsAino(a)
  PROVE  Kin(a, StepFirst(a, way)) /\ SameAino(a, StepFirst(a, way))
<1> DEFINE front == Only(a.child, way)
           back == Without(a.child, way)
           list == front \o back
<1>1. a.child \in Seq(Int)
  BY DEF IsAino
<1>2. front \in Seq(Int) /\ Range(front) = Range(a.child) \cap way
  BY <1>1, OnlyIs
<1>3. back \in Seq(Int) /\ Range(back) = Range(a.child) \ way
  BY <1>1, WithoutIs
<1> HIDE DEF front, back
<1>4. list \in Seq(Int) /\ Range(list) = Range(front) \cup Range(back)
  BY <1>2, <1>3, ConcatIs
<1>5. Range(list) = Range(a.child)
  BY <1>2, <1>3, <1>4
<1>6. StepFirst(a, way) = [a EXCEPT !.child = list]
  BY DEF StepFirst, front, back
<1> HIDE DEF list
<1> QED BY <1>4, <1>5, <1>6 DEF Kin, SameAino, IsAino

\* lookup_sub only reorders children.
LEMMA MovedToFront ==
  ASSUME NEW u, NEW but, NEW c, Sound(u, but), NEW v, v = MoveToFront(u, c)
  PROVE  Sound(v, but) /\ Keeps(u, v) /\ Rescanned(u, v)
<1> DEFINE way == WayTo(u, c)
           heap == [d \in DOMAIN u.heap |->
                      IF u.heap[d].locked_children = 0 /\ \E e \in way : u.heap[e].parent = d
                      THEN StepFirst(u.heap[d], way) ELSE u.heap[d]]
<1>1. v = WithHeap(u, heap)
  BY DEF MoveToFront, WithHeap
<1> HIDE DEF way
<1>2. DOMAIN heap = DOMAIN u.heap /\ heap = [d \in DOMAIN heap |-> heap[d]]
  OBVIOUS
<1>3. ASSUME NEW d \in DOMAIN u.heap
      PROVE  Kin(u.heap[d], heap[d]) /\ SameAino(u.heap[d], heap[d])
  <2>1. IsAino(u.heap[d])
    BY DEF Sound, Shape
  <2>2. Kin(u.heap[d], u.heap[d]) /\ SameAino(u.heap[d], u.heap[d])
    BY <2>1 DEF Kin, SameAino
  <2>3. heap[d] = u.heap[d] \/ heap[d] = StepFirst(u.heap[d], way)
    OBVIOUS
  <2> HIDE DEF heap
  <2> QED BY <2>1, <2>2, <2>3, FirstStep
<1> HIDE DEF heap
<1> QED BY <1>1, <1>2, <1>3, HeapChanged

-----------------------------------------------------------------------------
(* Finding by a lock.                                                      *)

\* The one with this uniq, if there is one.
LooksUp(u, f, uniq) ==
    /\ Search(u, f) /\ f.u.a_uniq = u.a_uniq
    /\ f.at # NoAino => f.u.heap[f.at].uniq = uniq
    /\ f.at = NoAino => \A c \in DOMAIN u.heap : u.heap[c].uniq # uniq

WithSlot(u, h, c) == [u EXCEPT !.aino_hash[h] = c]

\* A slot of the hash table may name what belongs into it, or nothing.
LEMMA SlotSet ==
  ASSUME NEW u, NEW but, NEW h, NEW c, Sound(u, but), NEW v, v = WithSlot(u, h, c),
         c = NoAino \/ (c \in DOMAIN u.heap /\ u.heap[c].uniq % HashSize = h)
  PROVE  Sound(v, but) /\ Keeps(u, v) /\ v.heap = u.heap /\ v.a_uniq = u.a_uniq
<1>1. /\ v.heap = u.heap /\ v.keys = u.keys /\ v.lru = u.lru
      /\ v.a_uniq = u.a_uniq /\ v.total_locked_ainos = u.total_locked_ainos
      /\ v.aino_hash = [u.aino_hash EXCEPT ![h] = c]
      /\ v = [heap |-> v.heap, lru |-> v.lru, total_locked_ainos |-> v.total_locked_ainos,
              aino_hash |-> v.aino_hash, exkeys |-> v.exkeys, keys |-> v.keys,
              a_uniq |-> v.a_uniq, broken |-> v.broken]
  BY DEF Sound, Shape, IsUnit, WithSlot
<1>2. IsUnit(v)
  <2>1. v.heap = [d \in DOMAIN v.heap |-> v.heap[d]]
    BY <1>1 DEF Sound, Shape, IsUnit
  <2>2. v.aino_hash = [d \in DOMAIN v.aino_hash |-> v.aino_hash[d]]
    BY <1>1
  <2> QED BY <1>1, <2>1, <2>2 DEF IsUnit
<1>3. Hashed(v)
  <2>1. Hashed(u) /\ DOMAIN v.aino_hash = DOMAIN u.aino_hash
    BY <1>1 DEF Sound
  <2>2. \A i \in DOMAIN u.aino_hash : v.aino_hash[i] = IF i = h THEN c ELSE u.aino_hash[i]
    BY <1>1
  <2> QED BY <1>1, <2>1, <2>2 DEF Hashed
<1>4. Alike(u, v)
  BY <1>1, <1>2 DEF Sound, Shape, Alike, Kin
<1>5. Listed(v, but) /\ v.lru \in Seq(Int)
  BY <1>1 DEF Sound, Shape, Listed, Idle
<1>6. Sound(v, but)
  BY <1>3, <1>4, <1>5, AlikeIsSound
<1>7. Keeps(u, v)
  BY <1>1 DEF Sound, Shape, Keeps, SameAino
<1> QED BY <1>1, <1>6, <1>7

\* lookup_aino finds the a_inode of a lock, if there is one.
LEMMA LockLookedUp ==
  ASSUME NEW u, NEW uniq, Sound(u, {}), NEW f, f = lookup_aino(u, uniq)
  PROVE  LooksUp(u, f, uniq)
<1> DEFINE h == uniq % HashSize
           hit == u.aino_hash[h]
           c == WithUniq(u, uniq)
           found == {d \in DOMAIN u.heap : u.heap[d].uniq = uniq}
<1>0. /\ Root \in DOMAIN u.heap /\ u.heap[Root].uniq = 0 /\ Root # NoAino
      /\ DOMAIN u.heap \subseteq Nat
  BY DEF Sound, Shape, Tree, Root, NoAino
<1>1. c = IF found = {} THEN NoAino ELSE CHOOSE d \in found : TRUE
  BY DEF WithUniq
<1>2. (found # {} => c \in found) /\ (found = {} => c = NoAino)
  BY <1>1
<1>3. f = IF uniq = 0 THEN Found(u, Root, "ok")
          ELSE IF hit # NoAino /\ hit \in DOMAIN u.heap /\ u.heap[hit].uniq = uniq
          THEN Found(u, hit, "ok")
          ELSE IF c = NoAino THEN Found(WithSlot(u, h, NoAino), NoAino, "absent")
          ELSE Found(WithSlot(MoveToFront(u, c), h, c), c, "ok")
  BY DEF lookup_aino, WithSlot
<1>4. Keeps(u, u)
  BY KeepsItself
<1> HIDE DEF c, h, hit
<1>5. CASE f = Found(u, Root, "ok") /\ uniq = 0
  BY <1>0, <1>4, <1>5 DEF Found, LooksUp, Search
<1>6. CASE f = Found(u, hit, "ok") /\ hit \in DOMAIN u.heap /\ u.heap[hit].uniq = uniq /\ hit # NoAino
  BY <1>4, <1>6 DEF Found, LooksUp, Search
<1>7. CASE f = Found(WithSlot(u, h, NoAino), NoAino, "absent") /\ c = NoAino
  <2>1. PICK v : v = WithSlot(u, h, NoAino)
    OBVIOUS
  <2>2. Sound(v, {}) /\ Keeps(u, v) /\ v.a_uniq = u.a_uniq
    BY ONLY <2>1, Sound(u, {}), SlotSet
  <2>3. found = {}
    BY <1>0, <1>2, <1>7 DEF NoAino
  <2> QED BY <1>7, <2>1, <2>2, <2>3 DEF Found, LooksUp, Search
<1>8. CASE f = Found(WithSlot(MoveToFront(u, c), h, c), c, "ok") /\ c # NoAino
  <2>1. PICK v, w : v = MoveToFront(u, c) /\ w = WithSlot(v, h, c)
    OBVIOUS
  <2>2. Sound(v, {}) /\ Keeps(u, v) /\ Rescanned(u, v)
    BY ONLY <2>1, Sound(u, {}), MovedToFront
  <2>3. c \in DOMAIN u.heap /\ u.heap[c].uniq = uniq
    BY <1>2, <1>8
  <2>4. c \in DOMAIN v.heap /\ v.heap[c].uniq = uniq
    BY <2>2, <2>3 DEF Rescanned, Kin
  <2>5. v.heap[c].uniq % HashSize = h
    BY <2>4 DEF h
  <2>6. Sound(w, {}) /\ Keeps(v, w) /\ w.heap = v.heap /\ w.a_uniq = v.a_uniq
    BY ONLY <2>1, <2>2, <2>4, <2>5, SlotSet
  <2>7. Keeps(u, w)
    BY <2>2, <2>6, KeepsOn
  <2>8. v.a_uniq = u.a_uniq
    BY <2>2 DEF Rescanned
  <2> QED BY <1>8, <2>1, <2>4, <2>6, <2>7, <2>8 DEF Found, LooksUp, Search
<1> QED BY <1>3, <1>5, <1>6, <1>7, <1>8

\* Where a lock's path begins.
LEMMA BaseLookedUp ==
  ASSUME NEW u, NEW lock, Sound(u, {}), NEW f, f = LookupOrRoot(u, lock)
  PROVE  /\ Search(u, f) /\ f.at \in DOMAIN f.u.heap /\ f.u.a_uniq = u.a_uniq
         /\ (lock # NoLock /\ \E c \in DOMAIN u.heap : u.heap[c].uniq = lock)
               => f.u.heap[f.at].uniq = lock
<1>1. CASE lock = NoLock
  <2>1. f = Found(u, Root, "ok")
    BY <1>1 DEF LookupOrRoot
  <2>2. Keeps(u, u) /\ Root \in DOMAIN u.heap
    BY KeepsItself DEF Sound, Tree
  <2> QED BY <1>1, <2>1, <2>2 DEF Found, Search
<1>2. CASE lock # NoLock
  <2>1. PICK g : g = lookup_aino(u, lock)
    OBVIOUS
  <2>2. LooksUp(u, g, lock)
    BY ONLY <2>1, Sound(u, {}), LockLookedUp
  <2>3. f = IF g.at = NoAino THEN Found(g.u, Root, "ok") ELSE g
    BY <1>2, <2>1 DEF LookupOrRoot
  <2>4. Root \in DOMAIN g.u.heap
    BY <2>2 DEF LooksUp, Search, Sound, Tree
  <2> QED BY <2>2, <2>3, <2>4 DEF Found, LooksUp, Search
<1> QED BY <1>1, <1>2

\* find_aino, from a lock or the root along a path.
LEMMA PacketLookedUp ==
  ASSUME NEW u, NEW lock, NEW rel \in Seq(Names), Sound(u, {}), NEW f, f = find_aino(u, lock, rel)
  PROVE  Search(u, f)
<1>1. PICK g : g = LookupOrRoot(u, lock)
  OBVIOUS
<1>2. Search(u, g) /\ g.at \in DOMAIN g.u.heap
  BY ONLY <1>1, Sound(u, {}), BaseLookedUp
<1>3. f = get_aino(g.u, g.at, rel)
  BY <1>1 DEF find_aino
<1>4. Sound(g.u, {}) /\ Keeps(u, g.u)
  BY <1>2 DEF Search
<1>5. PICK v, base : v = g.u /\ base = g.at
  OBVIOUS
<1>6. Search(v, f)
  <2>1. f = get_aino(v, base, rel) /\ Sound(v, {}) /\ base \in DOMAIN v.heap
    BY <1>2, <1>3, <1>4, <1>5
  <2> QED BY ONLY <2>1, rel \in Seq(Names), PathLookedUp
<1>7. Keeps(u, v) /\ Sound(v, {})
  BY <1>4, <1>5
<1> QED BY ONLY <1>6, <1>7, Sound(u, {}), SearchOn

-----------------------------------------------------------------------------
(* Scans count in directories, and make what the host lists.               *)

Counting(a, n, m) == [a EXCEPT !.exnext_count = n, !.locked_children = m]

Counts(u, dir, keys, total, n, m) ==
    [u EXCEPT !.exkeys = keys, !.total_locked_ainos = total,
              !.heap = [u.heap EXCEPT ![dir] = Counting(u.heap[dir], n, m)]]

\* The directory of a scan is told of one scan less.
LEMMA Counting1 ==
  ASSUME NEW u, NEW but, NEW dir \in DOMAIN u.heap, NEW keys, NEW total \in Int, NEW n,
         NEW m \in Nat, Sound(u, but), NEW v, v = Counts(u, dir, keys, total, n, m)
  PROVE  Sound(v, but) /\ Keeps(u, v)
<1> DEFINE heap == [u.heap EXCEPT ![dir] = Counting(u.heap[dir], n, m)]
<1>1. /\ v.heap = heap /\ v.keys = u.keys /\ v.aino_hash = u.aino_hash /\ v.lru = u.lru
      /\ v.a_uniq = u.a_uniq /\ v.total_locked_ainos = total
      /\ v = [heap |-> v.heap, lru |-> v.lru, total_locked_ainos |-> v.total_locked_ainos,
              aino_hash |-> v.aino_hash, exkeys |-> v.exkeys, keys |-> v.keys,
              a_uniq |-> v.a_uniq, broken |-> v.broken]
  BY DEF Sound, Shape, IsUnit, Counts
<1>2. /\ DOMAIN heap = DOMAIN u.heap /\ heap = [d \in DOMAIN heap |-> heap[d]]
      /\ \A d \in DOMAIN heap : heap[d] = IF d = dir THEN Counting(u.heap[d], n, m) ELSE u.heap[d]
  OBVIOUS
<1> HIDE DEF heap
<1>3. ASSUME NEW d \in DOMAIN u.heap PROVE Kin(u.heap[d], heap[d]) /\ SameAino(u.heap[d], heap[d])
  <2>1. IsAino(u.heap[d])
    BY DEF Sound, Shape
  <2>2. CASE d = dir
    <3>1. heap[d] = Counting(u.heap[d], n, m)
      BY <1>2, <2>2
    <3> QED BY <2>1, <3>1 DEF Counting, Kin, SameAino, IsAino
  <2>3. CASE d # dir
    BY <1>2, <2>1, <2>3 DEF Kin, SameAino
  <2> QED BY <2>2, <2>3
<1>4. IsUnit(v) /\ v.total_locked_ainos \in Int
  BY <1>1, <1>2 DEF Sound, Shape, IsUnit
<1>5. Rescanned(u, v)
  BY <1>1, <1>2, <1>3 DEF Rescanned
<1> QED BY <1>4, <1>5, RescannedIs

WithScans(u, keys) == [u EXCEPT !.exkeys = keys]

\* The scans' keys are no part of the tree.
LEMMA ScansSet ==
  ASSUME NEW u, NEW but, NEW keys, Sound(u, but), NEW v, v = WithScans(u, keys)
  PROVE  Sound(v, but) /\ Keeps(u, v) /\ Marked(u, v)
<1>1. Marked(u, v) /\ v.total_locked_ainos = u.total_locked_ainos
  BY DEF Sound, Shape, IsUnit, Marked, WithScans
<1>2. IsUnit(v)
  BY <1>1 DEF Sound, Shape, IsUnit, Marked, WithScans
<1>3. Sound(v, but)
  BY <1>1, <1>2 DEF Sound, Shape, Tree, Listed, Idle, Hashed, Marked
<1>4. Keeps(u, v)
  BY <1>1 DEF Sound, Shape, Marked, Keeps, SameAino
<1> QED BY <1>1, <1>3, <1>4

\* Nor is the mark.
LEMMA MarkedKeeps ==
  ASSUME NEW u, NEW v, NEW but, Sound(u, but), Marked(u, v)
  PROVE  Keeps(u, v)
BY DEF Sound, Shape, Marked, Keeps, SameAino

\* A scan's key is given up.
LEMMA KeyFreed ==
  ASSUME NEW u, NEW but, NEW i, Sound(u, but), NEW v, v = free_exkey(u, i)
  PROVE  Sound(v, but) /\ Keeps(u, v)
<1> DEFINE dir == u.exkeys[i].aino
           last == u.heap[dir].exnext_count = 1
           keys == RemoveAt(u.exkeys, i)
           n == u.heap[dir].exnext_count - 1
           m == IF last THEN 0 ELSE u.heap[dir].locked_children
           total == IF last THEN u.total_locked_ainos - u.heap[dir].locked_children
                    ELSE u.total_locked_ainos
<1>1. CASE dir \notin DOMAIN u.heap
  <2>1. PICK text : text = "scan of a freed directory"
    OBVIOUS
  <2>2. PICK w : w = WithScans(u, keys)
    OBVIOUS
  <2>3. v = [w EXCEPT !.broken = text]
    BY <1>1, <2>1, <2>2, Zenon DEF free_exkey, WithScans
  <2>4. Sound(w, but) /\ Keeps(u, w)
    BY ONLY <2>2, Sound(u, but), ScansSet
  <2>5. Sound(v, but) /\ Marked(w, v)
    BY ONLY <2>3, <2>4, MarkedIs
  <2>6. Keeps(w, v)
    BY ONLY <2>4, <2>5, MarkedKeeps
  <2> QED BY ONLY <2>4, <2>5, <2>6, Sound(u, but), KeepsOn
<1>2. CASE dir \in DOMAIN u.heap
  <2>1. IsAino(u.heap[dir]) /\ u.total_locked_ainos \in Int
    BY <1>2 DEF Sound, Shape
  <2>2. total \in Int /\ m \in Nat
    BY <2>1 DEF IsAino
  <2> DEFINE heap1 == [u.heap EXCEPT ![dir] = [u.heap[dir] EXCEPT !.exnext_count = n]]
             heap2 == [heap1 EXCEPT ![dir] = [heap1[dir] EXCEPT !.locked_children = m]]
  <2>a. PICK w : w = WithScans(u, keys)
    OBVIOUS
  <2>b. /\ w.heap = u.heap /\ w.total_locked_ainos = u.total_locked_ainos
        /\ w = [heap |-> w.heap, lru |-> w.lru, total_locked_ainos |-> w.total_locked_ainos,
                aino_hash |-> w.aino_hash, exkeys |-> w.exkeys, keys |-> w.keys,
                a_uniq |-> w.a_uniq, broken |-> w.broken]
        /\ w.exkeys = keys
    BY <2>a DEF WithScans, Sound, Shape, IsUnit
  <2>c. heap1[dir].locked_children = u.heap[dir].locked_children
    BY <1>2, <2>1 DEF IsAino
  <2>d. v = [w EXCEPT !.heap[dir].exnext_count = @ - 1,
                      !.total_locked_ainos = IF last THEN @ - u.heap[dir].locked_children ELSE @,
                      !.heap[dir].locked_children = IF last THEN 0 ELSE @]
    BY <1>2, <2>a DEF free_exkey, WithScans
  <2>e. v = [w EXCEPT !.heap = heap2, !.total_locked_ainos = total]
    <3>1. PICK w1 : w1 = [w EXCEPT !.heap = heap1]
      OBVIOUS
    <3>2. w1 = [w EXCEPT !.heap[dir].exnext_count = @ - 1]
      BY <2>b, <3>1
    <3>3. PICK w2 : w2 = [w1 EXCEPT !.total_locked_ainos = total]
      OBVIOUS
    <3>4. w1.total_locked_ainos = u.total_locked_ainos /\ w1.heap = heap1 /\ dir \in DOMAIN heap1
      BY <1>2, <2>b, <3>1
    <3>5. v = [w2 EXCEPT !.heap[dir].locked_children = IF last THEN 0 ELSE @]
      <4>1. PICK b, x : b = last /\ x = u.heap[dir].locked_children
        OBVIOUS
      <4>2. v = [w EXCEPT !.heap[dir].exnext_count = @ - 1,
                          !.total_locked_ainos = IF b THEN @ - x ELSE @,
                          !.heap[dir].locked_children = IF b THEN 0 ELSE @]
        BY ONLY <2>d, <4>1
      <4>3. v = [w1 EXCEPT !.total_locked_ainos = IF b THEN @ - x ELSE @,
                           !.heap[dir].locked_children = IF b THEN 0 ELSE @]
        <5> HIDE DEF dir, last, keys, n, m, total, heap1, heap2
        <5> QED BY ONLY <4>2, <3>2
      <4>4. w2 = [w1 EXCEPT !.total_locked_ainos = IF b THEN @ - x ELSE @]
        <5>1. total = IF b THEN w1.total_locked_ainos - x ELSE w1.total_locked_ainos
          BY ONLY <4>1, <3>4
        <5> HIDE DEF dir, last, keys, n, m, total, heap1, heap2
        <5> QED BY ONLY <5>1, <3>3
      <4> HIDE DEF dir, last, keys, n, m, total, heap1, heap2
      <4>5. v = [w2 EXCEPT !.heap[dir].locked_children = IF b THEN 0 ELSE @]
        BY ONLY <4>3, <4>4
      <4>6. b = last
        BY ONLY <4>1
      <4> QED BY ONLY <4>5, <4>6
    <3>6. w2.heap = heap1
      BY <2>b, <3>1, <3>3, <3>4
    <3>a. m = IF last THEN 0 ELSE w2.heap[dir].locked_children
      BY <2>c, <3>6
    <3>b. v = [w2 EXCEPT !.heap[dir].locked_children = m]
      <4>1. PICK b : b = last
        OBVIOUS
      <4>2. v = [w2 EXCEPT !.heap[dir].locked_children = IF b THEN 0 ELSE @]
        BY ONLY <3>5, <4>1
      <4>3. m = IF b THEN 0 ELSE w2.heap[dir].locked_children
        BY ONLY <3>a, <4>1
      <4> HIDE DEF last, m
      <4>4. CASE b
        BY ONLY <4>2, <4>3, <4>4
      <4>5. CASE ~b
        BY ONLY <4>2, <4>3, <4>5
      <4> QED BY ONLY <4>4, <4>5
    <3>7. v = [w2 EXCEPT !.heap = heap2]
      <4> HIDE DEF last, m, heap1
      <4> QED BY ONLY <3>b, <3>6
    <3> QED BY <2>b, <3>1, <3>3, <3>7
  <2>f. heap2 = [u.heap EXCEPT ![dir] = Counting(u.heap[dir], n, m)]
    BY <1>2, <2>1 DEF IsAino, Counting
  <2>3. v = Counts(u, dir, keys, total, n, m)
    BY <2>a, <2>e, <2>f DEF Counts, WithScans, Sound, Shape, IsUnit
  <2> HIDE DEF dir, last, keys, n, m, total
  <2> QED BY ONLY <1>2, <2>2, <2>3, Sound(u, but), Counting1
<1> QED BY <1>1, <1>2

\* A scan gets a key, for which the oldest one's may be given up.
LEMMA KeyTaken ==
  ASSUME NEW u, NEW but, NEW dir, Sound(u, but), NEW v, v = new_exkey(u, dir)
  PROVE  Sound(v, but) /\ Keeps(u, v)
<1>1. PICK w : w = IF Len(u.exkeys) < EXKEYS THEN u ELSE free_exkey(u, 1)
  OBVIOUS
<1>2. Sound(w, but) /\ Keeps(u, w)
  <2>1. CASE w = u
    BY <2>1, KeepsItself
  <2>2. CASE w = free_exkey(u, 1)
    BY <2>2, KeyFreed
  <2> QED BY <1>1, <2>1, <2>2
<1>3. PICK keys : keys = Append(w.exkeys, [aino |-> dir, curr_file |-> NoAino, todo |-> {}])
  OBVIOUS
<1>4. v = WithScans(w, keys)
  BY <1>1, <1>3 DEF new_exkey, WithScans
<1>5. Sound(v, but) /\ Keeps(w, v)
  BY ONLY <1>2, <1>4, ScansSet
<1> QED BY ONLY <1>2, <1>5, Sound(u, but), KeepsOn

\* A scan's next entry.
LEMMA Examined ==
  ASSUME NEW u, NEW but, NEW i, Sound(u, but), NEW v, v = do_examine(u, i)
  PROVE  Sound(v, but) /\ Keeps(u, v)
<1> DEFINE k == u.exkeys[i]
           keys == v.exkeys
           next == Sibling(u.heap[k.aino].child, k.curr_file)
<1>0. \/ v = free_exkey(u, i)
      \/ v = [u EXCEPT !.broken = "freed entry"]
      \/ v = [u EXCEPT !.exkeys[i].curr_file = next, !.exkeys[i].todo = @ \ {k.curr_file}]
  BY Zenon DEF do_examine
<1>1. \/ v = free_exkey(u, i)
      \/ v = [u EXCEPT !.broken = "freed entry"]
      \/ v = WithScans(u, keys)
  <2> SUFFICES ASSUME v = [u EXCEPT !.exkeys[i].curr_file = next, !.exkeys[i].todo = @ \ {k.curr_file}]
               PROVE  v = WithScans(u, keys)
    BY <1>0, Zenon
  <2> QED BY DEF WithScans, Sound, Shape, IsUnit
<1>2. CASE v = free_exkey(u, i)
  BY <1>2, KeyFreed
<1>3. CASE v = [u EXCEPT !.broken = "freed entry"]
  <2>1. PICK text : text = "freed entry"
    OBVIOUS
  <2>2. v = [u EXCEPT !.broken = text]
    BY <1>3, <2>1, Zenon
  <2>3. Sound(v, but) /\ Marked(u, v)
    BY ONLY <2>2, Sound(u, but), MarkedIs
  <2> QED BY ONLY <2>3, Sound(u, but), MarkedKeeps
<1>4. CASE v = WithScans(u, keys)
  <2> HIDE DEF keys
  <2> QED BY ONLY <1>4, Sound(u, but), ScansSet
<1> QED BY <1>1, <1>2, <1>3, <1>4

\* The next name of the host's listing.
MakeChild(u, dir, name) == lookup_child_aino(u, dir, name).u

\* The first n names of a directory made.
Making(f, u, dir, listing, n) ==
  f = [k \in 0 .. n |-> IF k = 0 THEN u ELSE MakeChild(f[k - 1], dir, listing[k])]

\* The children made for a listing are a function, for every length of it.
LEMMA MakingExists ==
  ASSUME NEW u, NEW dir, NEW listing, NEW n \in Nat
  PROVE  \E f : Making(f, u, dir, listing, n)
<1> DEFINE Bad == {m \in Nat : ~ \E f : Making(f, u, dir, listing, m)}
<1>1. 0 \notin Bad
  <2> DEFINE f == [k \in 0 .. 0 |-> u]
  <2>1. f = [k \in 0 .. 0 |-> IF k = 0 THEN u ELSE MakeChild(f[k - 1], dir, listing[k])]
    OBVIOUS
  <2> HIDE DEF f
  <2>2. Making(f, u, dir, listing, 0)
    BY <2>1 DEF Making
  <2> QED BY <2>2
<1>2. ASSUME NEW m \in Bad PROVE m = 0 \/ m - 1 \in Bad
  <2> SUFFICES ASSUME m # 0, m - 1 \notin Bad PROVE FALSE
    OBVIOUS
  <2>1. m \in Nat /\ m - 1 \in Nat
    OBVIOUS
  <2>2. PICK f : Making(f, u, dir, listing, m - 1)
    BY <2>1
  <2> DEFINE g == [k \in 0 .. m |-> IF k = m THEN MakeChild(f[m - 1], dir, listing[m]) ELSE f[k]]
  <2>3. \A k \in 0 .. m - 1 : g[k] = f[k]
    BY <2>1
  <2>4. g[m] = MakeChild(f[m - 1], dir, listing[m]) /\ g = [k \in 0 .. m |-> g[k]]
    BY <2>1
  <2> HIDE DEF g
  <2>5. ASSUME NEW k \in 0 .. m
        PROVE  g[k] = IF k = 0 THEN u ELSE MakeChild(g[k - 1], dir, listing[k])
    <3>1. CASE k = m
      <4>1. m - 1 \in 0 .. m - 1
        BY <2>1
      <4> QED BY <2>1, <2>3, <2>4, <3>1, <4>1
    <3>2. CASE k # m
      <4>1. k \in 0 .. m - 1 /\ (k # 0 => k - 1 \in 0 .. m - 1)
        BY <2>1, <3>2
      <4>2. f[k] = IF k = 0 THEN u ELSE MakeChild(f[k - 1], dir, listing[k])
        BY <2>2, <4>1 DEF Making
      <4> QED BY <2>3, <4>1, <4>2
    <3> QED BY <3>1, <3>2
  <2>6. g = [k \in 0 .. m |-> IF k = 0 THEN u ELSE MakeChild(g[k - 1], dir, listing[k])]
    BY <2>4, <2>5
  <2>7. Making(g, u, dir, listing, m)
    BY <2>6 DEF Making
  <2> QED BY <2>7
<1>3. Bad \in SUBSET Nat
  OBVIOUS
<1>4. Bad = {}
  <2> HIDE DEF Bad
  <2> QED BY <1>1, <1>2, <1>3, NoFirst
<1> QED BY <1>4


\* The directory of a scan has all its children now.
LEMMA Populated ==
  ASSUME NEW u, NEW dir, NEW listing, Len(listing) \in Nat, Sound(u, {}),
         dir \in DOMAIN u.heap, u.heap[dir].dir, NEW w, w = populate_directory(u, dir, listing)
  PROVE  Sound(w, {}) /\ Keeps(u, w)
<1> DEFINE n == Len(u.heap[dir].child)
           m == u.heap[dir].locked_children + n
           total == u.total_locked_ainos + n
           count == u.heap[dir].exnext_count
<1>1. IsAino(u.heap[dir]) /\ u.total_locked_ainos \in Int
  BY DEF Sound, Shape
<1>2. n \in Nat /\ m \in Nat /\ total \in Int
  BY <1>1 DEF IsAino
<1>3. PICK v : v = Counts(u, dir, u.exkeys, total, count, m)
  OBVIOUS
<1>4. PICK keys : keys = u.exkeys
  OBVIOUS
<1>5. Sound(v, {}) /\ Keeps(u, v)
  <2>1. v = Counts(u, dir, keys, total, count, m)
    BY <1>3, <1>4
  <2> HIDE DEF total, count, m
  <2> QED BY ONLY <1>2, <2>1, Sound(u, {}), dir \in DOMAIN u.heap, Counting1
<1>6. v = [u EXCEPT !.heap[dir].locked_children = @ + n, !.total_locked_ainos = @ + n]
  <2> HIDE DEF n
  <2>1. [u.heap[dir] EXCEPT !.locked_children = @ + n] = Counting(u.heap[dir], count, m)
    BY <1>1 DEF Counting, IsAino
  <2> QED BY <1>3, <2>1 DEF Counts, Sound, Shape, IsUnit
<1> HIDE DEF n, m, total, count
<1> DEFINE made == CHOOSE f : Making(f, v, dir, listing, Len(listing))
           Good(x) == Sound(x, {}) /\ Keeps(u, x)
           Bad == {k \in 0 .. Len(listing) : ~ Good(made[k])}
<1>7. Making(made, v, dir, listing, Len(listing))
  BY MakingExists
<1>8. w = u \/ w = made[Len(listing)]
  <2> HIDE DEF made
  <2>1. w = IF ~OnDisk(u, dir) THEN u ELSE
            LET made1[i \in 0..Len(listing)] ==
                  IF i = 0 THEN v ELSE lookup_child_aino(made1[i - 1], dir, listing[i]).u
            IN  made1[Len(listing)]
    BY <1>6 DEF populate_directory, n
  <2> QED BY <2>1 DEF Making, MakeChild, made
<1>9. \A k \in 0 .. Len(listing) :
        made[k] = IF k = 0 THEN v ELSE MakeChild(made[k - 1], dir, listing[k])
  BY <1>7 DEF Making
<1> HIDE DEF made
<1>10. 0 \notin Bad
  BY <1>5, <1>9
<1>11. ASSUME NEW x, NEW name, Good(x) PROVE Good(MakeChild(x, dir, name))
  <2>1. dir \in DOMAIN x.heap
    BY <1>11 DEF Keeps
  <2>2. PICK f : f = lookup_child_aino(x, dir, name)
    OBVIOUS
  <2>3. Search(x, f)
    BY ONLY <1>11, <2>1, <2>2, ChildLookedUp
  <2>4. Search(u, f)
    BY ONLY <1>11, <2>3, Sound(u, {}), SearchOn
  <2> QED BY <2>2, <2>4 DEF Search, MakeChild
<1>12. ASSUME NEW k \in Bad PROVE k = 0 \/ k - 1 \in Bad
  <2> SUFFICES ASSUME k # 0, k - 1 \notin Bad PROVE FALSE
    OBVIOUS
  <2>1. k \in 0 .. Len(listing) /\ k - 1 \in 0 .. Len(listing)
    OBVIOUS
  <2> HIDE DEF Good
  <2>2. Good(made[k - 1])
    BY <2>1
  <2>3. Good(made[k])
    BY <1>9, <1>11, <2>1, <2>2
  <2> QED BY <2>3
<1>13. Bad \in SUBSET Nat
  OBVIOUS
<1>14. Bad = {}
  <2> HIDE DEF Bad
  <2> QED BY <1>10, <1>12, <1>13, NoFirst
<1>15. Good(made[Len(listing)])
  <2> HIDE DEF Good
  <2> QED BY <1>14
<1> QED BY <1>8, <1>15, KeepsItself

WithScan(u, i, c, todo) == [u EXCEPT !.exkeys[i].curr_file = c, !.exkeys[i].todo = todo]

\* A scan's place changes nothing but the keys.
LEMMA ScanAt ==
  ASSUME NEW u, NEW but, Sound(u, but), NEW i, NEW c, NEW todo, NEW v, v = WithScan(u, i, c, todo)
  PROVE  v = WithScans(u, v.exkeys)
<1>1. u = [heap |-> u.heap, lru |-> u.lru, total_locked_ainos |-> u.total_locked_ainos,
           aino_hash |-> u.aino_hash, exkeys |-> u.exkeys, keys |-> u.keys,
           a_uniq |-> u.a_uniq, broken |-> u.broken]
  BY DEF Sound, Shape, IsUnit
<1> QED BY ONLY <1>1, v = WithScan(u, i, c, todo) DEF WithScans, WithScan

\* A scan begins: its directory's children are made and counted.
LEMMA ScanStarted ==
  ASSUME NEW u, NEW dir, NEW listing, Len(listing) \in Nat, Sound(u, {}),
         dir \in DOMAIN u.heap, u.heap[dir].dir, NEW z, z = StartScan(u, dir, listing)
  PROVE  Sound(z, {}) /\ Keeps(u, z)
<1> DEFINE v == new_exkey(u, dir)
           w == [v EXCEPT !.heap[dir].exnext_count = @ + 1]
           x == IF v.heap[dir].exnext_count = 0 THEN populate_directory(w, dir, listing) ELSE w
           child == x.heap[dir].child
           i == Len(x.exkeys)
           first == IF child = <<>> THEN NoAino ELSE child[1]
           all == Range(child)
           y == [x EXCEPT !.exkeys[i].curr_file = first, !.exkeys[i].todo = all]
<1>1. v = new_exkey(u, dir)
  OBVIOUS
<1>4. w = [v EXCEPT !.heap[dir].exnext_count = @ + 1]
  OBVIOUS
<1>6. x = IF v.heap[dir].exnext_count = 0 THEN populate_directory(w, dir, listing) ELSE w
  OBVIOUS
<1>10. z = v \/ z = do_examine(y, i)
  BY DEF StartScan
<1> HIDE DEF v, w, x, child, i, first, all
<1>2. Sound(v, {}) /\ Keeps(u, v)
  BY ONLY <1>1, Sound(u, {}), KeyTaken
<1>3. dir \in DOMAIN v.heap /\ v.heap[dir].dir
  <2>1. dir \in DOMAIN v.heap /\ dir <= u.a_uniq
    BY <1>2 DEF Keeps, Sound, Shape
  <2>2. ~ dir > u.a_uniq
    BY <2>1 DEF Sound, Shape
  <2> QED BY <1>2, <2>1, <2>2 DEF Keeps, SameAino
<1>5. Sound(w, {}) /\ Keeps(v, w) /\ dir \in DOMAIN w.heap /\ w.heap[dir].dir
  <2> DEFINE n == v.heap[dir].exnext_count + 1
             m == v.heap[dir].locked_children
             total == v.total_locked_ainos
             keys == v.exkeys
  <2>1. IsAino(v.heap[dir]) /\ total \in Int
    BY <1>2, <1>3 DEF Sound, Shape
  <2>2. m \in Nat
    BY <2>1 DEF IsAino
  <2>3. [v.heap[dir] EXCEPT !.exnext_count = @ + 1] = Counting(v.heap[dir], n, m)
    BY <2>1 DEF Counting, IsAino
  <2>4. w = Counts(v, dir, keys, total, n, m)
    BY <1>2, <1>4, <2>3 DEF Counts, Sound, Shape, IsUnit
  <2>5. w.heap = [v.heap EXCEPT ![dir] = [v.heap[dir] EXCEPT !.exnext_count = @ + 1]]
    BY <1>2, <1>4 DEF Sound, Shape, IsUnit
  <2>6. dir \in DOMAIN w.heap /\ w.heap[dir].dir
    BY <1>3, <2>1, <2>5 DEF IsAino
  <2> HIDE DEF n, m, total, keys
  <2>7. Sound(w, {}) /\ Keeps(v, w)
    BY ONLY <1>2, <1>3, <2>1, <2>2, <2>4, Counting1
  <2> QED BY <2>6, <2>7
<1>7. Sound(x, {}) /\ Keeps(w, x)
  <2>1. CASE x = w
    BY <1>5, <2>1, KeepsItself
  <2>2. CASE x = populate_directory(w, dir, listing)
    BY ONLY <1>5, <2>2, Len(listing) \in Nat, Populated
  <2> QED BY <1>6, <2>1, <2>2
<1>11. Sound(y, {}) /\ Keeps(x, y)
  <2>1. y = WithScan(x, i, first, all)
    BY DEF WithScan
  <2> HIDE DEF y
  <2>2. y = WithScans(x, y.exkeys)
    BY ONLY <1>7, <2>1, ScanAt
  <2>3. PICK keys : keys = y.exkeys
    OBVIOUS
  <2>4. y = WithScans(x, keys)
    BY <2>2, <2>3
  <2> QED BY ONLY <1>7, <2>4, ScansSet
<1> HIDE DEF y
<1>12. CASE z = v
  BY <1>2, <1>12
<1>13. CASE z = do_examine(y, i)
  <2>1. Sound(z, {}) /\ Keeps(y, z)
    BY ONLY <1>11, <1>13, Examined
  <2>2. Keeps(x, z)
    BY ONLY <1>7, <1>11, <2>1, KeepsOn
  <2>3. Keeps(w, z)
    BY ONLY <1>5, <1>7, <2>1, <2>2, KeepsOn
  <2>4. Keeps(v, z)
    BY ONLY <1>2, <1>5, <2>1, <2>3, KeepsOn
  <2> QED BY ONLY <1>2, <2>1, <2>4, Sound(u, {}), KeepsOn
<1> QED BY <1>10, <1>12, <1>13

-----------------------------------------------------------------------------
(* Deleting, holding and letting go.                                       *)

\* Another a_inode may be freed: it must not be the root, or a parent.
Deletes(u, v, c) ==
    /\ DOMAIN v.heap = DOMAIN u.heap \ {c} /\ v.keys = u.keys /\ v.a_uniq = u.a_uniq
    /\ \A d \in DOMAIN v.heap : SameAino(u.heap[d], v.heap[d])

\* delete_aino frees an a_inode without children and whatever refers to it.
LEMMA Deleted ==
  ASSUME NEW u, NEW but, NEW c, Sound(u, but), Leaves(u, {c}), NEW w, w = delete_aino(u, c)
  PROVE  Sound(w, but \ {c}) /\ Deletes(u, w, c)
<1> DEFINE more == but \cup {c}
           gone == {c}
<1>1. PICK v : v = de_recycle_aino(u, c)
  OBVIOUS
<1>2. PICK x : x = AdvanceScans(v, c)
  OBVIOUS
<1>3. w = dispose_ainos(x, gone)
  BY <1>1, <1>2 DEF delete_aino
<1>4. Sound(v, more) /\ Relists(u, v, Without(u.lru, {c}))
  BY ONLY <1>1, Sound(u, but), DeRecycled
<1>5. more \ {c} = but \ {c} /\ gone \subseteq more
  OBVIOUS
<1> HIDE DEF more
<1>6. Sound(x, more) /\ Marked(v, x)
  <2>1. CASE x = v
    BY <1>4, <2>1 DEF Marked
  <2>2. CASE x # v
    <3> DEFINE keys == x.exkeys
    <3>1. x = WithScans(v, keys)
      BY <1>2, <1>4, <2>2 DEF AdvanceScans, WithScans, Sound, Shape, IsUnit
    <3> HIDE DEF keys
    <3> QED BY ONLY <1>4, <3>1, ScansSet
  <2> QED BY <2>1, <2>2
<1>7. x.heap = u.heap /\ x.keys = u.keys /\ x.a_uniq = u.a_uniq
  BY <1>4, <1>6 DEF Relists, Marked
<1>8. Leaves(x, gone)
  BY <1>7 DEF Leaves
<1> HIDE DEF gone
<1>9. Sound(w, more \ gone) /\ Freed(x, w, gone)
  BY ONLY <1>3, <1>5, <1>6, <1>8, Disposed
<1> QED BY <1>5, <1>7, <1>9 DEF Freed, Deletes, gone

\* One a_inode with other lock counts: whether it may be freed is another matter.
WithAino(u, c, a) == [u EXCEPT !.heap[c] = a]

Rewritten(u, v, c, a) ==
    /\ v.keys = u.keys /\ v.aino_hash = u.aino_hash /\ v.lru = u.lru /\ v.a_uniq = u.a_uniq
    /\ DOMAIN v.heap = DOMAIN u.heap /\ v.heap[c] = a
    /\ \A d \in DOMAIN u.heap \ {c} : v.heap[d] = u.heap[d]

\* An a_inode that is on its way to or from the list is given new counts.
LEMMA AinoWritten ==
  ASSUME NEW u, NEW but, NEW c \in DOMAIN u.heap, NEW a, Sound(u, but), c \in but,
         Kin(u.heap[c], a), NEW v, v = WithAino(u, c, a)
  PROVE  Sound(v, but) /\ Rewritten(u, v, c, a)
<1> DEFINE heap == [u.heap EXCEPT ![c] = a]
<1>1. /\ v.heap = heap /\ v.keys = u.keys /\ v.aino_hash = u.aino_hash /\ v.lru = u.lru
      /\ v.a_uniq = u.a_uniq /\ v.total_locked_ainos = u.total_locked_ainos
      /\ v = [heap |-> v.heap, lru |-> v.lru, total_locked_ainos |-> v.total_locked_ainos,
              aino_hash |-> v.aino_hash, exkeys |-> v.exkeys, keys |-> v.keys,
              a_uniq |-> v.a_uniq, broken |-> v.broken]
  BY DEF Sound, Shape, IsUnit, WithAino
<1>2. /\ DOMAIN heap = DOMAIN u.heap /\ heap = [d \in DOMAIN heap |-> heap[d]] /\ heap[c] = a
      /\ \A d \in DOMAIN heap \ {c} : heap[d] = u.heap[d]
  OBVIOUS
<1> HIDE DEF heap
<1>3. \A d \in DOMAIN u.heap : Kin(u.heap[d], heap[d])
  BY <1>2 DEF Kin, Sound, Shape
<1>4. IsUnit(v)
  BY <1>1, <1>2 DEF Sound, Shape, IsUnit
<1>5. Alike(u, v)
  BY <1>1, <1>2, <1>3, <1>4 DEF Sound, Shape, Alike
<1>6. Hashed(v)
  BY <1>1, <1>5, AlikeIsHashed DEF Sound
<1>7. v.lru \in Seq(Int) /\ Listed(v, but)
  <2>1. Idle(v) \ but = Idle(u) \ but
    BY <1>1, <1>2 DEF Idle
  <2> QED BY <1>1, <2>1 DEF Sound, Shape, Listed
<1>8. Sound(v, but)
  BY <1>5, <1>6, <1>7, AlikeIsSound
<1> QED BY <1>1, <1>2, <1>8 DEF Rewritten

\* Other handles.
WithKeys(u, keys) == [u EXCEPT !.keys = keys]

SameButKeys(u, v, keys) ==
    /\ v.heap = u.heap /\ v.aino_hash = u.aino_hash /\ v.lru = u.lru
    /\ v.a_uniq = u.a_uniq /\ v.keys = keys

\* The handles are no part of the tree.
LEMMA KeysSet ==
  ASSUME NEW u, NEW but, Sound(u, but), NEW keys \in [Handles -> [aino : Int, output : BOOLEAN]],
         NEW v, v = WithKeys(u, keys)
  PROVE  Sound(v, but) /\ SameButKeys(u, v, keys)
<1>1. /\ v.heap = u.heap /\ v.keys = keys /\ v.aino_hash = u.aino_hash /\ v.lru = u.lru
      /\ v.a_uniq = u.a_uniq /\ v.total_locked_ainos = u.total_locked_ainos
      /\ v = [heap |-> v.heap, lru |-> v.lru, total_locked_ainos |-> v.total_locked_ainos,
              aino_hash |-> v.aino_hash, exkeys |-> v.exkeys, keys |-> v.keys,
              a_uniq |-> v.a_uniq, broken |-> v.broken]
  BY DEF Sound, Shape, IsUnit, WithKeys
<1>2. IsUnit(v)
  BY <1>1 DEF Sound, Shape, IsUnit
<1>3. Sound(v, but)
  BY <1>1, <1>2 DEF Sound, Shape, Tree, Listed, Idle, Hashed
<1> QED BY <1>1, <1>3 DEF SameButKeys

\* What is in use is not on the list anyway.
LEMMA InUseIsNotListed ==
  ASSUME NEW u, NEW but, NEW c, c \notin Idle(u)
  PROVE  Sound(u, but) <=> Sound(u, but \cup {c})
<1>1. Idle(u) \ but = Idle(u) \ (but \cup {c})
  OBVIOUS
<1> QED BY <1>1 DEF Sound, Listed

-----------------------------------------------------------------------------
(* Counting holders.                                                       *)

\* The handles on an a_inode are finitely many.
LEMMA KeysCount ==
  ASSUME NEW u, NEW c
  PROVE  /\ IsFiniteSet(KeysOn(u, c)) /\ Cardinality(KeysOn(u, c)) \in Nat
         /\ Cardinality(KeysOn(u, c)) = 0 <=> KeysOn(u, c) = {}
<1>1. KeysOn(u, c) \subseteq Handles /\ IsFiniteSet(Handles)
  BY Bounds DEF KeysOn
<1>2. IsFiniteSet(KeysOn(u, c))
  BY <1>1, FS_Subset
<1> QED BY <1>2, FS_CardinalityType, FS_EmptySet

HoldersOf(u, l, c) == l[u.heap[c].uniq] + Cardinality(KeysOn(u, c))

\* What Counted says of one a_inode, and that a holder keeps it in use.
LEMMA HoldersCounted ==
  ASSUME NEW u, NEW but, NEW l, NEW r, NEW c \in DOMAIN u.heap, Sound(u, but), Counted(u, l, r),
         u.a_uniq <= MaxAinos
  PROVE  /\ u.heap[c].uniq \in Uniqs /\ l[u.heap[c].uniq] \in Nat
         /\ HoldersOf(u, l, c) \in Nat /\ u.heap[c].shlock \in Nat
         /\ Agree(u.heap[c], HoldersOf(u, l, c), r)
         /\ l[u.heap[c].uniq] > 0 \/ KeysOn(u, c) # {} => HoldersOf(u, l, c) > 0 /\ InUse(u.heap[c])
<1>1. u.heap[c].uniq \in Nat /\ u.heap[c].shlock \in Nat /\ u.heap[c].uniq <= u.a_uniq
  BY DEF Sound, Shape, Tree, IsAino
<1>2. u.a_uniq \in Nat /\ MaxAinos \in Nat
  BY Bounds DEF Sound, Shape
<1>3. u.heap[c].uniq \in Uniqs
  BY <1>1, <1>2 DEF Uniqs
<1>4. l[u.heap[c].uniq] \in Nat /\ Agree(u.heap[c], HoldersOf(u, l, c), r)
  BY <1>3 DEF Counted, HoldersOf
<1>5. /\ Cardinality(KeysOn(u, c)) \in Nat
      /\ Cardinality(KeysOn(u, c)) = 0 <=> KeysOn(u, c) = {}
  BY KeysCount
<1>6. HoldersOf(u, l, c) = l[u.heap[c].uniq] + Cardinality(KeysOn(u, c))
  BY DEF HoldersOf
<1>7. HoldersOf(u, l, c) \in Nat
  BY <1>4, <1>5, <1>6
<1>8. ASSUME l[u.heap[c].uniq] > 0 \/ KeysOn(u, c) # {}
      PROVE  HoldersOf(u, l, c) > 0 /\ InUse(u.heap[c])
  <2>1. HoldersOf(u, l, c) > 0
    BY <1>4, <1>5, <1>6, <1>8
  <2> QED BY <1>1, <1>4, <1>7, <2>1 DEF Agree, InUse
<1> QED BY <1>1, <1>3, <1>4, <1>7, <1>8

\* Only the a_inode c is held differently.
HeldElsewhere(u, v, l, l2, r, r2, c) ==
    /\ v.a_uniq = u.a_uniq /\ DOMAIN v.heap = DOMAIN u.heap
    /\ v.heap[c].uniq = u.heap[c].uniq
    /\ \A d \in DOMAIN u.heap \ {c} :
         SameAino(u.heap[d], v.heap[d]) /\ KeysOn(v, d) = KeysOn(u, d)
    /\ \A h \in Handles : v.keys[h].aino \in {u.keys[h].aino, c, NoAino}
    /\ l2 \in [Uniqs -> Nat] /\ r2 \subseteq Uniqs
    /\ \A uniq \in Uniqs \ {u.heap[c].uniq} : l2[uniq] = l[uniq] /\ (uniq \in r2 <=> uniq \in r)

\* Whoever changes the holders of one a_inode has only that one to count.
LEMMA OneCounted ==
  ASSUME NEW u, NEW but, NEW v, NEW l, NEW l2, NEW r, NEW r2, NEW c \in DOMAIN u.heap,
         Sound(u, but), Counted(u, l, r), u.a_uniq <= MaxAinos,
         HeldElsewhere(u, v, l, l2, r, r2, c),
         Agree(v.heap[c], HoldersOf(v, l2, c), r2)
  PROVE  Counted(v, l2, r2)
<1>1. \A d \in DOMAIN u.heap :
        /\ v.heap[d].uniq = u.heap[d].uniq /\ u.heap[d].uniq \in Uniqs
        /\ d # c => u.heap[d].uniq # u.heap[c].uniq
        /\ u.heap[d].uniq <= u.a_uniq
  <2>1. \A d \in DOMAIN u.heap : u.heap[d].uniq \in Uniqs
    BY HoldersCounted
  <2> QED BY <2>1 DEF HeldElsewhere, SameAino, Sound, Tree
<1>2. \A uniq \in r2 : uniq <= v.a_uniq
  BY <1>1 DEF HeldElsewhere, Counted
<1>3. \A uniq \in Uniqs : l2[uniq] > 0 => \E d \in DOMAIN v.heap : v.heap[d].uniq = uniq
  BY <1>1 DEF HeldElsewhere, Counted
<1>4. \A h \in Handles : v.keys[h].aino = NoAino \/ v.keys[h].aino \in DOMAIN v.heap
  BY DEF HeldElsewhere, Counted
<1>5. ASSUME NEW d \in DOMAIN v.heap
      PROVE  Agree(v.heap[d], l2[v.heap[d].uniq] + Cardinality(KeysOn(v, d)), r2)
  <2>1. CASE d = c
    BY <2>1 DEF HoldersOf
  <2>2. CASE d # c
    <3>1. d \in DOMAIN u.heap /\ SameAino(u.heap[d], v.heap[d]) /\ KeysOn(v, d) = KeysOn(u, d)
      BY <2>2 DEF HeldElsewhere
    <3>2. /\ u.heap[d].uniq \in Uniqs \ {u.heap[c].uniq} /\ v.heap[d].uniq = u.heap[d].uniq
      BY <1>1, <2>2, <3>1
    <3>3. l2[u.heap[d].uniq] = l[u.heap[d].uniq] /\ (u.heap[d].uniq \in r2 <=> u.heap[d].uniq \in r)
      BY <3>2 DEF HeldElsewhere
    <3>4. Agree(u.heap[d], l[u.heap[d].uniq] + Cardinality(KeysOn(u, d)), r)
      BY <3>1 DEF Counted
    <3> QED BY <3>1, <3>2, <3>3, <3>4 DEF Agree, SameAino
  <2> QED BY <2>1, <2>2
<1> QED BY <1>2, <1>3, <1>4, <1>5 DEF Counted, HeldElsewhere

\* Freeing what nobody holds.
LEMMA DeletedCounts ==
  ASSUME NEW u, NEW but, NEW v, NEW l, NEW r, NEW c \in DOMAIN u.heap, Sound(u, but),
         Counted(u, l, r), u.a_uniq <= MaxAinos, ~InUse(u.heap[c]), Deletes(u, v, c)
  PROVE  Counted(v, l, r)
<1>1. \A d \in DOMAIN u.heap : u.heap[d].uniq \in Uniqs
  BY HoldersCounted
<1>2. ~ l[u.heap[c].uniq] > 0 /\ KeysOn(u, c) = {}
  BY HoldersCounted
<1>3. \A uniq \in r : uniq <= v.a_uniq
  BY DEF Deletes, Counted
<1>4. \A uniq \in Uniqs : l[uniq] > 0 => \E d \in DOMAIN v.heap : v.heap[d].uniq = uniq
  <2> SUFFICES ASSUME NEW uniq \in Uniqs, l[uniq] > 0 PROVE \E d \in DOMAIN v.heap : v.heap[d].uniq = uniq
    OBVIOUS
  <2>1. PICK d \in DOMAIN u.heap : u.heap[d].uniq = uniq
    BY DEF Counted
  <2>2. d # c
    BY <1>2, <2>1
  <2> QED BY <2>1, <2>2 DEF Deletes, SameAino
<1>5. \A h \in Handles : v.keys[h].aino = NoAino \/ v.keys[h].aino \in DOMAIN v.heap
  BY <1>2 DEF Deletes, Counted, KeysOn
<1>6. ASSUME NEW d \in DOMAIN v.heap
      PROVE  Agree(v.heap[d], l[v.heap[d].uniq] + Cardinality(KeysOn(v, d)), r)
  <2>1. d \in DOMAIN u.heap /\ SameAino(u.heap[d], v.heap[d])
    BY DEF Deletes
  <2>2. KeysOn(v, d) = KeysOn(u, d)
    BY DEF Deletes, KeysOn
  <2>3. Agree(u.heap[d], l[u.heap[d].uniq] + Cardinality(KeysOn(u, d)), r)
    BY <2>1 DEF Counted
  <2> QED BY <2>1, <2>2, <2>3 DEF Agree, SameAino
<1> QED BY <1>3, <1>4, <1>5, <1>6 DEF Counted

\* An a_inode that is in use, or a directory, with its lock counts set.
Rewrites(u, v, c, a) ==
    /\ v.keys = u.keys /\ v.a_uniq = u.a_uniq /\ DOMAIN v.heap = DOMAIN u.heap /\ v.heap[c] = a
    /\ \A d \in DOMAIN u.heap \ {c} : v.heap[d] = u.heap[d]

\* An a_inode that is used from now on is taken off the list.
LEMMA AinoSet ==
  ASSUME NEW u, NEW c \in DOMAIN u.heap, NEW a, Sound(u, {}), Kin(u.heap[c], a),
         a.dir \/ InUse(a), NEW v, v = de_recycle_aino(WithAino(u, c, a), c)
  PROVE  Sound(v, {}) /\ Rewrites(u, v, c, a)
<1>1. PICK w : w = de_recycle_aino(u, c)
  OBVIOUS
<1>2. Sound(w, {} \cup {c}) /\ Relists(u, w, Without(u.lru, {c}))
  BY ONLY <1>1, Sound(u, {}), DeRecycled
<1>3. {} \cup {c} = {c}
  OBVIOUS
<1>4. PICK but : but = {c}
  OBVIOUS
<1>5. Sound(w, but) /\ c \in but
  BY <1>2, <1>3, <1>4
<1>6. w.heap = u.heap /\ w.keys = u.keys /\ w.a_uniq = u.a_uniq
  BY <1>2 DEF Relists
<1>7. v = WithAino(w, c, a)
  BY <1>1 DEF de_recycle_aino, WithAino, Sound, Shape, IsUnit
<1>8. Sound(v, but) /\ Rewritten(w, v, c, a)
  BY ONLY <1>5, <1>6, <1>7, c \in DOMAIN u.heap, Kin(u.heap[c], a), AinoWritten
<1>9. c \notin Idle(v)
  BY <1>8 DEF Rewritten, Idle
<1>10. Sound(v, {})
  BY <1>3, <1>4, <1>8, <1>9, InUseIsNotListed
<1> QED BY <1>6, <1>8, <1>10 DEF Rewritten, Rewrites

\* One holder more.
More(a, excl) == IF excl THEN [a EXCEPT !.elock = TRUE] ELSE [a EXCEPT !.shlock = @ + 1]

\* One holder more, exclusive or shared.
LEMMA MoreIs ==
  ASSUME NEW a, IsAino(a), NEW excl \in BOOLEAN, NEW b, b = More(a, excl)
  PROVE  /\ Kin(a, b) /\ b.uniq = a.uniq /\ InUse(b)
         /\ excl => b.elock = TRUE /\ b.shlock = a.shlock
         /\ ~excl => b.elock = a.elock /\ b.shlock = a.shlock + 1
<1>1. CASE excl
  BY <1>1 DEF IsAino, More, Kin, InUse
<1>2. CASE ~excl
  BY <1>2 DEF IsAino, More, Kin, InUse
<1> QED BY <1>1, <1>2

\* Hold is that, and off the list.
LEMMA HoldIs ==
  ASSUME NEW u, NEW c \in DOMAIN u.heap, NEW excl \in BOOLEAN, Sound(u, {}),
         NEW v, v = Hold(u, c, excl)
  PROVE  Sound(v, {}) /\ Rewrites(u, v, c, More(u.heap[c], excl))
<1> DEFINE a == More(u.heap[c], excl)
<1>1. IsAino(u.heap[c])
  BY DEF Sound, Shape
<1>2. Kin(u.heap[c], a) /\ InUse(a)
  BY <1>1, MoreIs
<1>3. v = de_recycle_aino(WithAino(u, c, a), c)
  BY DEF Hold, More, WithAino
<1> HIDE DEF a
<1>4. Sound(v, {}) /\ Rewrites(u, v, c, a)
  BY ONLY <1>2, <1>3, Sound(u, {}), c \in DOMAIN u.heap, AinoSet
<1> QED BY <1>4 DEF a

Handed(u, v, c, a, keys) ==
    /\ v.keys = keys /\ v.a_uniq = u.a_uniq /\ DOMAIN v.heap = DOMAIN u.heap /\ v.heap[c] = a
    /\ \A d \in DOMAIN u.heap \ {c} : v.heap[d] = u.heap[d]

Hands(u, c, a, keys, l, r) == \A y : Handed(u, y, c, a, keys) => Counted(y, l, r)

\* One holder less: with the lock counts a, and handles keys, everything else
\* that happens is that unused files are freed.
LEMMA LetGo ==
  ASSUME NEW u, NEW c \in DOMAIN u.heap, NEW a, Sound(u, {}), InUse(u.heap[c]), Kin(u.heap[c], a),
         NEW keys \in [Handles -> [aino : Int, output : BOOLEAN]], NEW l, NEW r,
         NEW x, x = WithAino(u, c, a),
         Hands(u, c, a, keys, l, r),
         NEW v, v = recycle_aino(x, c), NEW w, w = WithKeys(v, keys), w.a_uniq <= MaxAinos
  PROVE  Sound(w, {}) /\ Counted(w, l, r) /\ Sound(v, {}) /\ v.keys = u.keys
<1>1. PICK but : but = {c}
  OBVIOUS
<1>2. Sound(u, but) /\ c \in but
  <2>1. c \notin Idle(u) /\ {} \cup {c} = but
    BY <1>1 DEF Idle
  <2> QED BY <1>1, <2>1, InUseIsNotListed
<1>3. Sound(x, but) /\ Rewritten(u, x, c, a)
  BY ONLY <1>2, x = WithAino(u, c, a), c \in DOMAIN u.heap, Kin(u.heap[c], a), AinoWritten
<1>4. Sound(x, {c}) /\ c \in DOMAIN x.heap
  BY <1>1, <1>3 DEF Rewritten
<1>5. /\ Sound(v, {}) /\ c \in DOMAIN v.heap
      /\ v.keys = x.keys /\ v.a_uniq = x.a_uniq
      /\ DOMAIN v.heap \subseteq DOMAIN x.heap
      /\ \A d \in DOMAIN x.heap : x.heap[d].dir \/ InUse(x.heap[d]) => d \in DOMAIN v.heap
      /\ \A d \in DOMAIN v.heap : SameAino(x.heap[d], v.heap[d])
  BY ONLY <1>4, v = recycle_aino(x, c), Recycled
<1>6. Sound(w, {}) /\ SameButKeys(v, w, keys)
  BY ONLY <1>5, w = WithKeys(v, keys), keys \in [Handles -> [aino : Int, output : BOOLEAN]], KeysSet
<1>7. PICK y : y = WithKeys(x, keys)
  OBVIOUS
<1>8. Sound(y, but) /\ SameButKeys(x, y, keys)
  BY ONLY <1>3, <1>7, keys \in [Handles -> [aino : Int, output : BOOLEAN]], KeysSet
<1>9. Counted(y, l, r)
  <2>1. Handed(u, y, c, a, keys)
    BY <1>3, <1>8 DEF Rewritten, SameButKeys, Handed
  <2> QED BY <2>1 DEF Hands
<1>10. Keeps(y, w)
  BY <1>5, <1>6, <1>8 DEF SameButKeys, Keeps, Sound, Shape
<1>11. Counted(w, l, r)
  BY ONLY <1>6, <1>8, <1>9, <1>10, w.a_uniq <= MaxAinos, KeepsCounts
<1> QED BY <1>3, <1>5, <1>6, <1>11 DEF Rewritten

Less(a) == IF a.elock THEN [a EXCEPT !.elock = FALSE] ELSE [a EXCEPT !.shlock = @ - 1]

\* One holder less.
LEMMA LessIs ==
  ASSUME NEW a, IsAino(a), InUse(a), NEW b, b = Less(a)
  PROVE  /\ Kin(a, b) /\ b.uniq = a.uniq /\ b.elock = FALSE
         /\ a.elock => b.shlock = a.shlock
         /\ ~a.elock => b.shlock = a.shlock - 1
<1>1. CASE a.elock
  BY <1>1 DEF IsAino, Less, Kin, InUse
<1>2. CASE ~a.elock
  BY <1>2 DEF IsAino, Less, Kin, InUse
<1> QED BY <1>1, <1>2

\* Release is that, and on the list if it was the last.
LEMMA ReleaseIs ==
  ASSUME NEW u, NEW c
  PROVE  Release(u, c) = recycle_aino(WithAino(u, c, Less(u.heap[c])), c)
BY DEF Release, WithAino, Less

-----------------------------------------------------------------------------
(* Taking and dropping a lock, opening and closing a handle.               *)

\* One holder more, of an object that may have one more of its kind.
LEMMA OneMore ==
  ASSUME NEW a, NEW b, NEW n \in Nat, NEW r, NEW excl \in BOOLEAN, IsAino(a),
         Agree(a, n, r), ~a.elock, excl => a.shlock = 0, b = More(a, excl)
  PROVE  Agree(b, n + 1, r)
<1>1. a.shlock \in Nat /\ a.elock = FALSE
  BY DEF IsAino
<1>2. /\ b.uniq = a.uniq
      /\ excl => b.elock = TRUE /\ b.shlock = a.shlock
      /\ ~excl => b.elock = a.elock /\ b.shlock = a.shlock + 1
  BY MoreIs
<1>3. CASE excl
  <2>1. a.shlock = 0 /\ b.shlock = 0 /\ b.elock = TRUE
    BY <1>2, <1>3
  <2>2. a.uniq \notin r /\ n = 0
    BY <1>1, <2>1 DEF Agree
  <2> QED BY <1>2, <2>1, <2>2 DEF Agree
<1>4. CASE ~excl
  <2>1. b.shlock = a.shlock + 1 /\ b.elock = FALSE
    BY <1>1, <1>2, <1>4
  <2> QED BY <1>1, <1>2, <2>1 DEF Agree
<1> QED BY <1>3, <1>4

\* One holder less.
LEMMA OneLess ==
  ASSUME NEW a, NEW b, NEW n \in Nat, n > 0, NEW r, IsAino(a), InUse(a), Agree(a, n, r), b = Less(a)
  PROVE  Agree(b, n - 1, r)
<1>1. a.shlock \in Nat /\ a.elock \in BOOLEAN
  BY DEF IsAino
<1>2. /\ b.uniq = a.uniq /\ b.elock = FALSE
      /\ a.elock => b.shlock = a.shlock
      /\ ~a.elock => b.shlock = a.shlock - 1
  BY LessIs
<1>3. CASE a.elock
  <2>1. a.uniq \notin r /\ n = 1 /\ b.shlock = 0
    BY <1>1, <1>2, <1>3 DEF Agree
  <2> QED BY <1>2, <2>1 DEF Agree
<1>4. CASE ~a.elock
  BY <1>1, <1>2, <1>4 DEF Agree
<1> QED BY <1>3, <1>4

\* A packet that is given a lock counts it.
LEMMA LockTaken ==
  ASSUME NEW u, Sound(u, {}), Counted(u, locks, recounted), u.a_uniq <= MaxAinos,
         NEW c \in DOMAIN u.heap, NEW excl \in BOOLEAN, ~u.heap[c].elock,
         excl => u.heap[c].shlock = 0, NEW v, v = Hold(u, c, excl), Take(u.heap[c].uniq)
  PROVE  Sound(v, {}) /\ v.a_uniq = u.a_uniq /\ Counted(v, locks', recounted)
<1> DEFINE a == u.heap[c]
           b == More(a, excl)
           n == HoldersOf(u, locks, c)
<1>1. IsAino(a)
  BY DEF Sound, Shape
<1>2. b.uniq = a.uniq
  <2>1. b = More(a, excl)
    OBVIOUS
  <2> HIDE DEF a, b
  <2> QED BY <1>1, <2>1, MoreIs
<1> HIDE DEF b
<1>3. Sound(v, {}) /\ Rewrites(u, v, c, b)
  BY HoldIs DEF b
<1>4. a.uniq \in Uniqs /\ locks[a.uniq] \in Nat /\ n \in Nat /\ Agree(a, n, recounted)
  BY HoldersCounted
<1>5. locks' = [locks EXCEPT ![a.uniq] = @ + 1] /\ locks \in [Uniqs -> Nat]
  BY DEF Take, Counted
<1>6. locks' \in [Uniqs -> Nat] /\ locks'[a.uniq] = locks[a.uniq] + 1
      /\ \A uniq \in Uniqs \ {a.uniq} : locks'[uniq] = locks[uniq]
  BY <1>4, <1>5
<1>7. KeysOn(v, c) = KeysOn(u, c) /\ \A d : KeysOn(v, d) = KeysOn(u, d)
  BY <1>3 DEF Rewrites, KeysOn
<1>8. v.heap[c].uniq = a.uniq /\ v.heap[c] = b
  BY <1>2, <1>3 DEF Rewrites
<1>9. HoldersOf(v, locks', c) = n + 1
  <2>1. Cardinality(KeysOn(u, c)) \in Nat
    BY KeysCount
  <2> QED BY <1>4, <1>6, <1>7, <1>8, <2>1 DEF HoldersOf
<1>10. Agree(v.heap[c], HoldersOf(v, locks', c), recounted)
  <2> HIDE DEF a, n
  <2>1. ~a.elock /\ (excl => a.shlock = 0)
    BY DEF a
  <2>2. Agree(b, n + 1, recounted)
    BY <1>1, <1>4, <2>1, OneMore DEF b
  <2> QED BY <1>8, <1>9, <2>2
<1>11. HeldElsewhere(u, v, locks, locks', recounted, recounted, c)
  BY <1>3, <1>6, <1>7, <1>8 DEF Rewrites, HeldElsewhere, SameAino, Counted
<1>12. PICK l2 : l2 = locks'
  OBVIOUS
<1>13. HeldElsewhere(u, v, locks, l2, recounted, recounted, c)
       /\ Agree(v.heap[c], HoldersOf(v, l2, c), recounted)
  BY <1>10, <1>11, <1>12
<1>14. Counted(v, l2, recounted)
  BY <1>13, OneCounted
<1> QED BY <1>3, <1>12, <1>14 DEF Rewrites

\* A packet that frees a lock counts it no longer.
LEMMA LockDropped ==
  ASSUME NEW u, Sound(u, {}), Counted(u, locks, recounted), u.a_uniq <= MaxAinos,
         NEW c \in DOMAIN u.heap, locks[u.heap[c].uniq] > 0, NEW v, v = Release(u, c),
         v.a_uniq <= MaxAinos, Drop(u.heap[c].uniq)
  PROVE  Sound(v, {}) /\ Counted(v, locks', recounted)
<1> DEFINE a == u.heap[c]
           b == Less(a)
           n == HoldersOf(u, locks, c)
           keys == u.keys
<1>1. IsAino(a)
  BY DEF Sound, Shape
<1>2. /\ a.uniq \in Uniqs /\ locks[a.uniq] \in Nat /\ n \in Nat /\ n > 0 /\ InUse(a)
      /\ Agree(a, n, recounted)
  BY HoldersCounted
<1>3. Kin(a, b) /\ b.uniq = a.uniq
  <2>1. b = Less(a)
    OBVIOUS
  <2> HIDE DEF a, b
  <2> QED BY <1>1, <1>2, <2>1, LessIs
<1>4. locks' = [locks EXCEPT ![a.uniq] = @ - 1] /\ locks \in [Uniqs -> Nat]
  BY DEF Drop, Counted
<1>5. locks' \in [Uniqs -> Nat] /\ locks'[a.uniq] = locks[a.uniq] - 1
      /\ \A uniq \in Uniqs \ {a.uniq} : locks'[uniq] = locks[uniq]
  BY <1>2, <1>4
<1>6. PICK l2 : l2 = locks'
  OBVIOUS
<1> HIDE DEF b
<1>7. ASSUME NEW y, Handed(u, y, c, b, keys) PROVE Counted(y, l2, recounted)
  <2>1. \A d : KeysOn(y, d) = KeysOn(u, d)
    BY <1>7 DEF Handed, KeysOn
  <2>2. y.heap[c] = b
    BY <1>7 DEF Handed
  <2>3. HoldersOf(y, l2, c) = n - 1
    <3>1. Cardinality(KeysOn(u, c)) \in Nat
      BY KeysCount
    <3> QED BY <1>2, <1>3, <1>5, <1>6, <2>1, <2>2, <3>1 DEF HoldersOf
  <2>4. Agree(y.heap[c], HoldersOf(y, l2, c), recounted)
    <3>1. b = Less(a)
      BY DEF b
    <3> HIDE DEF a, n
    <3>2. Agree(b, n - 1, recounted)
      BY <1>1, <1>2, <3>1, OneLess
    <3> QED BY <2>2, <2>3, <3>2
  <2>5. HeldElsewhere(u, y, locks, l2, recounted, recounted, c)
    BY <1>3, <1>5, <1>6, <1>7, <2>1, <2>2 DEF Handed, HeldElsewhere, SameAino, Counted
  <2> QED BY <2>4, <2>5, OneCounted
<1>8. PICK x : x = WithAino(u, c, b)
  OBVIOUS
<1>9. v = recycle_aino(x, c)
  BY <1>8, ReleaseIs DEF b
<1>10. keys \in [Handles -> [aino : Int, output : BOOLEAN]]
  BY DEF Sound, Shape
<1>11. PICK w : w = WithKeys(v, keys)
  OBVIOUS
<1>13. /\ Sound(v, {}) /\ v.keys = keys
  <2>1. PICK but : but = {c}
    OBVIOUS
  <2>2. Sound(u, but) /\ c \in but
    <3>1. c \notin Idle(u) /\ {} \cup {c} = but
      BY <1>2, <2>1 DEF Idle
    <3> QED BY <2>1, <3>1, InUseIsNotListed
  <2>3. Sound(x, but) /\ Rewritten(u, x, c, b)
    BY ONLY <1>3, <1>8, <2>2, c \in DOMAIN u.heap, AinoWritten DEF a
  <2>4. Sound(x, {c}) /\ c \in DOMAIN x.heap
    BY <2>1, <2>3 DEF Rewritten
  <2>5. Sound(v, {}) /\ v.keys = x.keys
    BY ONLY <1>9, <2>4, Recycled
  <2> QED BY <2>3, <2>5 DEF Rewritten
<1>14. w = v
  BY <1>11, <1>13 DEF WithKeys, Sound, Shape, IsUnit
<1>15. InUse(u.heap[c]) /\ Kin(u.heap[c], b)
  BY <1>2, <1>3
<1> HIDE DEF keys
<1>16. Hands(u, c, b, keys, l2, recounted)
  BY <1>7 DEF Hands
<1>17. w.a_uniq <= MaxAinos
  BY <1>14
<1>18. Sound(w, {}) /\ Counted(w, l2, recounted)
  BY ONLY <1>8, <1>9, <1>10, <1>11, <1>15, <1>16, <1>17, Sound(u, {}), c \in DOMAIN u.heap, LetGo
<1> QED BY <1>6, <1>14, <1>18

\* A handle that names c, or nothing.
LEMMA KeyWritten ==
  ASSUME NEW keys \in [Handles -> [aino : Int, output : BOOLEAN]], NEW h \in Handles,
         NEW c \in Int, NEW output \in BOOLEAN, NEW keys2,
         keys2 = [keys EXCEPT ![h] = [aino |-> c, output |-> output]]
  PROVE  /\ keys2 \in [Handles -> [aino : Int, output : BOOLEAN]]
         /\ keys2[h].aino = c /\ \A i \in Handles \ {h} : keys2[i] = keys[i]
OBVIOUS

\* A packet that opens a handle counts it.
LEMMA HandleOpened ==
  ASSUME NEW u, Sound(u, {}), Counted(u, locks, recounted), u.a_uniq <= MaxAinos,
         NEW c \in DOMAIN u.heap, NEW excl \in BOOLEAN, NEW output \in BOOLEAN, ~u.heap[c].elock,
         excl => u.heap[c].shlock = 0, NEW h \in Handles, u.keys[h].aino = NoAino,
         NEW v, v = Hold(SetKey(u, h, c, output), c, excl)
  PROVE  Sound(v, {}) /\ v.a_uniq = u.a_uniq /\ Counted(v, locks, recounted)
<1> DEFINE a == u.heap[c]
           b == More(a, excl)
           n == HoldersOf(u, locks, c)
<1>1. IsAino(a) /\ c \in Int /\ c # NoAino
  BY DEF Sound, Shape, NoAino
<1>2. b.uniq = a.uniq
  <2>1. b = More(a, excl)
    OBVIOUS
  <2> HIDE DEF a, b
  <2> QED BY <1>1, <2>1, MoreIs
<1> HIDE DEF b
<1>3. PICK keys : keys = [u.keys EXCEPT ![h] = [aino |-> c, output |-> output]]
  OBVIOUS
<1>4. /\ keys \in [Handles -> [aino : Int, output : BOOLEAN]]
      /\ keys[h].aino = c /\ \A i \in Handles \ {h} : keys[i] = u.keys[i]
  BY <1>1, <1>3, KeyWritten DEF Sound, Shape
<1>5. PICK x : x = WithKeys(u, keys)
  OBVIOUS
<1>6. Sound(x, {}) /\ SameButKeys(u, x, keys)
  BY ONLY <1>4, <1>5, Sound(u, {}), KeysSet
<1>7. v = Hold(x, c, excl)
  BY <1>3, <1>5 DEF SetKey, WithKeys, Sound, Shape, IsUnit
<1>8. Sound(v, {}) /\ Rewrites(x, v, c, b)
  <2>1. c \in DOMAIN x.heap /\ x.heap[c] = a
    BY <1>6 DEF SameButKeys
  <2>2. Sound(v, {}) /\ Rewrites(x, v, c, More(x.heap[c], excl))
    BY ONLY <1>6, <1>7, <2>1, excl \in BOOLEAN, HoldIs
  <2> QED BY <2>1, <2>2 DEF b
<1>9. Handed(u, v, c, b, keys)
  BY <1>6, <1>8 DEF Rewrites, SameButKeys, Handed
<1>10. /\ a.uniq \in Uniqs /\ locks[a.uniq] \in Nat /\ n \in Nat
       /\ Agree(a, n, recounted)
  BY HoldersCounted
<1>11. KeysOn(v, c) = KeysOn(u, c) \cup {h} /\ h \notin KeysOn(u, c)
  BY <1>1, <1>4, <1>9 DEF Handed, KeysOn
<1>12. \A d \in DOMAIN u.heap \ {c} : KeysOn(v, d) = KeysOn(u, d)
  <2>1. NoAino \notin DOMAIN u.heap
    BY DEF NoAino, Sound, Shape
  <2> QED BY <1>4, <1>9, <2>1 DEF Handed, KeysOn
<1>13. HoldersOf(v, locks, c) = n + 1
  <2>1. IsFiniteSet(KeysOn(u, c)) /\ Cardinality(KeysOn(u, c)) \in Nat
    BY KeysCount
  <2>2. Cardinality(KeysOn(v, c)) = Cardinality(KeysOn(u, c)) + 1
    BY ONLY <1>11, <2>1, FS_AddElement
  <2>3. v.heap[c].uniq = a.uniq
    BY <1>2, <1>9 DEF Handed
  <2> QED BY <1>10, <2>1, <2>2, <2>3 DEF HoldersOf
<1>14. Agree(v.heap[c], HoldersOf(v, locks, c), recounted)
  <2>1. ~a.elock /\ (excl => a.shlock = 0) /\ b = More(a, excl)
    BY DEF a, b
  <2>2. v.heap[c] = b
    BY <1>9 DEF Handed
  <2> HIDE DEF a, n
  <2>3. Agree(b, n + 1, recounted)
    BY <1>1, <1>10, <2>1, OneMore
  <2> QED BY <1>13, <2>2, <2>3
<1>15. HeldElsewhere(u, v, locks, locks, recounted, recounted, c)
  BY <1>2, <1>4, <1>9, <1>12 DEF Handed, HeldElsewhere, SameAino, Counted
<1>16. Counted(v, locks, recounted)
  BY <1>14, <1>15, OneCounted
<1> QED BY <1>8, <1>9, <1>16 DEF Handed

\* The lock's holder is the handle's now.
LEMMA HandleFromLock ==
  ASSUME NEW u, Sound(u, {}), Counted(u, locks, recounted), u.a_uniq <= MaxAinos,
         NEW c \in DOMAIN u.heap, NEW output \in BOOLEAN, NEW h \in Handles, u.keys[h].aino = NoAino,
         locks[u.heap[c].uniq] > 0, Drop(u.heap[c].uniq),
         NEW v, v = de_recycle_aino(SetKey(u, h, c, output), c)
  PROVE  Sound(v, {}) /\ v.a_uniq = u.a_uniq /\ Counted(v, locks', recounted)
<1> DEFINE a == u.heap[c]
           n == HoldersOf(u, locks, c)
<1>1. IsAino(a) /\ c \in Int /\ c # NoAino
  BY DEF Sound, Shape, NoAino
<1>3. PICK keys : keys = [u.keys EXCEPT ![h] = [aino |-> c, output |-> output]]
  OBVIOUS
<1>4. /\ keys \in [Handles -> [aino : Int, output : BOOLEAN]]
      /\ keys[h].aino = c /\ \A i \in Handles \ {h} : keys[i] = u.keys[i]
  BY <1>1, <1>3, KeyWritten DEF Sound, Shape
<1>5. PICK x : x = WithKeys(u, keys)
  OBVIOUS
<1>6. Sound(x, {}) /\ SameButKeys(u, x, keys)
  BY ONLY <1>4, <1>5, Sound(u, {}), KeysSet
<1>7. v = de_recycle_aino(x, c)
  BY <1>3, <1>5 DEF SetKey, WithKeys, Sound, Shape, IsUnit
<1>8. Sound(v, {} \cup {c}) /\ Relists(x, v, Without(x.lru, {c}))
  BY ONLY <1>6, <1>7, DeRecycled
<1>9. v.heap = u.heap /\ v.keys = keys /\ v.a_uniq = u.a_uniq
  BY <1>6, <1>8 DEF Relists, SameButKeys
<1>10. /\ a.uniq \in Uniqs /\ locks[a.uniq] \in Nat /\ n \in Nat /\ InUse(a)
       /\ Agree(a, n, recounted)
  BY HoldersCounted
<1>11. Sound(v, {})
  <2>1. c \notin Idle(v)
    BY <1>9, <1>10 DEF Idle
  <2> QED BY <1>8, <2>1, InUseIsNotListed
<1>12. KeysOn(v, c) = KeysOn(u, c) \cup {h} /\ h \notin KeysOn(u, c)
  BY <1>1, <1>4, <1>9 DEF KeysOn
<1>13. \A d \in DOMAIN u.heap \ {c} : KeysOn(v, d) = KeysOn(u, d)
  <2>1. NoAino \notin DOMAIN u.heap
    BY DEF NoAino, Sound, Shape
  <2> QED BY <1>4, <1>9, <2>1 DEF KeysOn
<1>14. locks' = [locks EXCEPT ![a.uniq] = @ - 1] /\ locks \in [Uniqs -> Nat]
  BY DEF Drop, Counted
<1>15. locks' \in [Uniqs -> Nat] /\ locks'[a.uniq] = locks[a.uniq] - 1
      /\ \A uniq \in Uniqs \ {a.uniq} : locks'[uniq] = locks[uniq]
  BY <1>10, <1>14
<1>16. PICK l2 : l2 = locks'
  OBVIOUS
<1>17. HoldersOf(v, l2, c) = n
  <2>1. IsFiniteSet(KeysOn(u, c)) /\ Cardinality(KeysOn(u, c)) \in Nat
    BY KeysCount
  <2>2. Cardinality(KeysOn(v, c)) = Cardinality(KeysOn(u, c)) + 1
    BY ONLY <1>12, <2>1, FS_AddElement
  <2>3. v.heap[c].uniq = a.uniq
    BY <1>9
  <2> QED BY <1>10, <1>15, <1>16, <2>1, <2>2, <2>3 DEF HoldersOf
<1>18. Agree(v.heap[c], HoldersOf(v, l2, c), recounted)
  BY <1>9, <1>10, <1>17
<1>19. HeldElsewhere(u, v, locks, l2, recounted, recounted, c)
  BY <1>4, <1>9, <1>13, <1>15, <1>16 DEF HeldElsewhere, SameAino, Counted
<1>20. Counted(v, l2, recounted)
  BY <1>18, <1>19, OneCounted
<1> QED BY <1>9, <1>11, <1>16, <1>20

\* A packet that closes a handle counts it no longer.
LEMMA HandleClosed ==
  ASSUME NEW u, Sound(u, {}), Counted(u, locks, recounted), u.a_uniq <= MaxAinos,
         NEW h \in Handles, NEW c, c = u.keys[h].aino, c # NoAino,
         NEW v, v = [Release(u, c) EXCEPT !.keys[h] = NoKey], v.a_uniq <= MaxAinos
  PROVE  Sound(v, {}) /\ Counted(v, locks, recounted)
<1> DEFINE a == u.heap[c]
           b == Less(a)
           n == HoldersOf(u, locks, c)
<1>1. c \in DOMAIN u.heap /\ h \in KeysOn(u, c)
  BY DEF Counted, KeysOn
<1>2. IsAino(a) /\ c \in Int /\ NoAino \in Int /\ NoAino \notin DOMAIN u.heap
  BY <1>1 DEF Sound, Shape, NoAino
<1>3. /\ a.uniq \in Uniqs /\ locks[a.uniq] \in Nat /\ n \in Nat /\ n > 0 /\ InUse(a)
      /\ Agree(a, n, recounted)
  BY <1>1, HoldersCounted
<1>4. Kin(a, b) /\ b.uniq = a.uniq
  <2>1. b = Less(a)
    OBVIOUS
  <2> HIDE DEF a, b
  <2> QED BY <1>2, <1>3, <2>1, LessIs
<1> HIDE DEF b
<1>5. PICK keys : keys = [u.keys EXCEPT ![h] = NoKey]
  OBVIOUS
<1>6. /\ keys \in [Handles -> [aino : Int, output : BOOLEAN]]
      /\ keys[h].aino = NoAino /\ \A i \in Handles \ {h} : keys[i] = u.keys[i]
  <2>1. u.keys \in [Handles -> [aino : Int, output : BOOLEAN]]
    BY DEF Sound, Shape
  <2>2. PICK no \in BOOLEAN : no = FALSE
    OBVIOUS
  <2>3. keys = [u.keys EXCEPT ![h] = [aino |-> NoAino, output |-> no]]
    BY <1>5, <2>2 DEF NoKey
  <2> QED BY ONLY <1>2, <2>1, <2>3, h \in Handles, no \in BOOLEAN, KeyWritten
<1>7. ASSUME NEW y, Handed(u, y, c, b, keys) PROVE Counted(y, locks, recounted)
  <2>1. \A d \in DOMAIN u.heap \ {c} : KeysOn(y, d) = KeysOn(u, d)
    BY <1>2, <1>6, <1>7 DEF Handed, KeysOn
  <2>2. KeysOn(y, c) = KeysOn(u, c) \ {h}
    BY <1>1, <1>2, <1>6, <1>7 DEF Handed, KeysOn
  <2>3. y.heap[c] = b
    BY <1>7 DEF Handed
  <2>4. HoldersOf(y, locks, c) = n - 1
    <3>1. IsFiniteSet(KeysOn(u, c)) /\ Cardinality(KeysOn(u, c)) \in Nat
      BY KeysCount
    <3>2. Cardinality(KeysOn(y, c)) = Cardinality(KeysOn(u, c)) - 1
      BY ONLY <1>1, <2>2, <3>1, FS_RemoveElement
    <3>3. n = locks[a.uniq] + Cardinality(KeysOn(u, c))
      BY DEF HoldersOf
    <3>4. HoldersOf(y, locks, c) = locks[a.uniq] + Cardinality(KeysOn(y, c))
      BY <1>4, <2>3 DEF HoldersOf
    <3> HIDE DEF n, a
    <3> QED BY <1>3, <3>1, <3>2, <3>3, <3>4
  <2>5. Agree(y.heap[c], HoldersOf(y, locks, c), recounted)
    <3>1. b = Less(a)
      BY DEF b
    <3> HIDE DEF a, n
    <3>2. Agree(b, n - 1, recounted)
      BY <1>2, <1>3, <3>1, OneLess
    <3> QED BY <2>3, <2>4, <3>2
  <2>6. HeldElsewhere(u, y, locks, locks, recounted, recounted, c)
    BY <1>4, <1>6, <1>7, <2>1, <2>3 DEF Handed, HeldElsewhere, SameAino, Counted
  <2> QED BY <1>1, <2>5, <2>6, OneCounted
<1>8. PICK x, w : x = WithAino(u, c, b) /\ w = recycle_aino(x, c)
  OBVIOUS
<1>9. w = Release(u, c)
  BY <1>8, ReleaseIs DEF b
<1>10. Sound(w, {}) /\ w.keys = u.keys
  <2>1. PICK but : but = {c}
    OBVIOUS
  <2>2. Sound(u, but) /\ c \in but
    <3>1. c \notin Idle(u) /\ {} \cup {c} = but
      BY <1>3, <2>1 DEF Idle
    <3> QED BY <2>1, <3>1, InUseIsNotListed
  <2>3. Sound(x, but) /\ Rewritten(u, x, c, b)
    BY ONLY <1>1, <1>4, <1>8, <2>2, AinoWritten DEF a
  <2>4. Sound(x, {c}) /\ c \in DOMAIN x.heap
    BY <1>1, <2>1, <2>3 DEF Rewritten
  <2>5. Sound(w, {}) /\ w.keys = x.keys
    BY ONLY <1>8, <2>4, Recycled
  <2> QED BY <2>3, <2>5 DEF Rewritten
<1>11. v = WithKeys(w, keys)
  BY <1>5, <1>9, <1>10 DEF WithKeys, Sound, Shape, IsUnit
<1>12. InUse(u.heap[c]) /\ Kin(u.heap[c], b)
  BY <1>3, <1>4
<1>13. Hands(u, c, b, keys, locks, recounted)
  BY <1>7 DEF Hands
<1> QED BY ONLY <1>1, <1>6, <1>8, <1>11, <1>12, <1>13, Sound(u, {}), v.a_uniq <= MaxAinos, LetGo

\* Exclusive or shared.
Changed(a, excl) == [a EXCEPT !.elock = excl, !.shlock = IF excl THEN 0 ELSE @ + 1]

\* The counts after a change of mode.
LEMMA ChangedIs ==
  ASSUME NEW a, IsAino(a), NEW excl \in BOOLEAN, NEW b, b = Changed(a, excl)
  PROVE  /\ Kin(a, b) /\ b.uniq = a.uniq /\ InUse(b)
         /\ excl => b.elock = TRUE /\ b.shlock = 0
         /\ ~excl => b.elock = FALSE /\ b.shlock = a.shlock + 1
<1>1. PICK s \in Nat : s = IF excl THEN 0 ELSE a.shlock + 1
  BY DEF IsAino
<1>2. b = [a EXCEPT !.elock = excl, !.shlock = s]
  BY <1>1 DEF Changed
<1>3. /\ b.elock = excl /\ b.shlock = s /\ b.uniq = a.uniq /\ b.parent = a.parent /\ b.dir = a.dir
      /\ b.child = a.child /\ b.locked_children = a.locked_children /\ IsAino(b)
  BY <1>2 DEF IsAino
<1>4. Kin(a, b)
  BY <1>3 DEF Kin
<1>5. excl => b.elock = TRUE /\ b.shlock = 0
  BY <1>1, <1>3
<1>6. ~excl => b.elock = FALSE /\ b.shlock = a.shlock + 1
  BY <1>1, <1>3
<1>7. InUse(b)
  <2>1. a.shlock + 1 > 0
    BY DEF IsAino
  <2> QED BY <1>5, <1>6, <2>1 DEF InUse
<1> QED BY <1>3, <1>4, <1>5, <1>6, <1>7

WithMode(u, c, excl) ==
    [u EXCEPT !.heap[c].elock = excl, !.heap[c].shlock = IF excl THEN 0 ELSE @ + 1]

\* A change of mode keeps the count right, or one too many and remembered.
LEMMA ModeChanged ==
  ASSUME NEW u, NEW l, NEW r, NEW r2, Sound(u, {}), Counted(u, l, r), u.a_uniq <= MaxAinos,
         NEW c \in DOMAIN u.heap, NEW excl \in BOOLEAN, l[u.heap[c].uniq] > 0,
         excl => ~ u.heap[c].shlock > 1,
         r2 = IF ~excl /\ ~u.heap[c].elock THEN r \cup {u.heap[c].uniq} ELSE r,
         NEW v, v = de_recycle_aino(WithMode(u, c, excl), c)
  PROVE  Sound(v, {}) /\ v.a_uniq = u.a_uniq /\ Counted(v, l, r2)
<1> DEFINE a == u.heap[c]
           b == Changed(a, excl)
           n == HoldersOf(u, l, c)
<1>1. IsAino(a) /\ a.shlock \in Nat /\ a.elock \in BOOLEAN
  BY DEF Sound, Shape, IsAino
<1>2. /\ Kin(a, b) /\ b.uniq = a.uniq /\ InUse(b)
      /\ excl => b.elock = TRUE /\ b.shlock = 0
      /\ ~excl => b.elock = FALSE /\ b.shlock = a.shlock + 1
  <2>1. b = Changed(a, excl)
    OBVIOUS
  <2> HIDE DEF a, b
  <2> QED BY <1>1, <2>1, ChangedIs
<1>3. PICK x : x = WithMode(u, c, excl)
  OBVIOUS
<1>4. x = WithAino(u, c, b)
  <2> DEFINE heap1 == [u.heap EXCEPT ![c] = [u.heap[c] EXCEPT !.elock = excl]]
             heap2 == [heap1 EXCEPT ![c] = [heap1[c] EXCEPT !.shlock = IF excl THEN 0 ELSE @ + 1]]
  <2>1. x = [u EXCEPT !.heap = heap2]
    BY <1>3, <1>1 DEF WithMode, Sound, Shape, IsUnit, IsAino
  <2>2. heap2 = [u.heap EXCEPT ![c] = b]
    <3>1. heap1[c] = [u.heap[c] EXCEPT !.elock = excl]
      OBVIOUS
    <3>2. [heap1[c] EXCEPT !.shlock = IF excl THEN 0 ELSE @ + 1] = b
      BY <3>1, <1>1 DEF Changed, IsAino
    <3> HIDE DEF b
    <3>3. heap2 = [heap1 EXCEPT ![c] = b]
      BY <3>2
    <3> QED BY <3>3
  <2> HIDE DEF heap2
  <2> QED BY <2>1, <2>2 DEF WithAino
<1> HIDE DEF b
<1>5. v = de_recycle_aino(WithAino(u, c, b), c)
  BY <1>3, <1>4
<1>6. Sound(v, {}) /\ Rewrites(u, v, c, b)
  BY ONLY <1>2, <1>5, Sound(u, {}), c \in DOMAIN u.heap, AinoSet DEF a
<1>7. /\ a.uniq \in Uniqs /\ l[a.uniq] \in Nat /\ n \in Nat /\ n > 0 /\ InUse(a)
      /\ Agree(a, n, r)
  BY HoldersCounted
<1>8. \A d : KeysOn(v, d) = KeysOn(u, d)
  BY <1>6 DEF Rewrites, KeysOn
<1>9. HoldersOf(v, l, c) = n /\ v.heap[c] = b
  BY <1>2, <1>6, <1>8 DEF HoldersOf, Rewrites
<1>10. Agree(b, n, r2)
  <2> HIDE DEF n, a
  <2>0. r2 = IF ~excl /\ ~a.elock THEN r \cup {a.uniq} ELSE r
    BY DEF a
  <2>1. CASE excl
    <3>1. b.elock = TRUE /\ b.shlock = 0 /\ r2 = r /\ ~ a.shlock > 1
      BY <1>2, <2>0, <2>1 DEF a
    <3>2. a.uniq \notin r /\ n <= 1
      BY <1>1, <1>7, <3>1 DEF Agree
    <3> QED BY <1>2, <3>1, <3>2 DEF Agree
  <2>2. CASE ~excl /\ a.elock
    <3>1. b.elock = FALSE /\ b.shlock = a.shlock + 1 /\ r2 = r
      BY <1>2, <2>0, <2>2
    <3>2. a.shlock = 0 /\ a.uniq \notin r /\ n = 1
      BY <1>7, <2>2 DEF Agree
    <3> QED BY <1>2, <3>1, <3>2 DEF Agree
  <2>3. CASE ~excl /\ ~a.elock
    <3>1. b.elock = FALSE /\ b.shlock = a.shlock + 1 /\ b.uniq \in r2
      BY <1>2, <2>0, <2>3
    <3>2. a.shlock >= n
      BY <1>1, <1>7, <2>3 DEF Agree
    <3> QED BY <1>1, <1>7, <3>1, <3>2 DEF Agree
  <2> QED BY <2>1, <2>2, <2>3
<1>11. HeldElsewhere(u, v, l, l, r, r2, c)
  BY <1>2, <1>6, <1>7, <1>8, <1>9 DEF Rewrites, HeldElsewhere, SameAino, Counted
<1>12. Counted(v, l, r2)
  BY <1>9, <1>10, <1>11, OneCounted
<1> QED BY <1>6, <1>12 DEF Rewrites

-----------------------------------------------------------------------------
(* Renaming.                                                               *)

\* What is not in use has no holder.
LEMMA UnusedUnheld ==
  ASSUME NEW u, NEW but, NEW l, NEW r, NEW c \in DOMAIN u.heap, Sound(u, but), Counted(u, l, r),
         u.a_uniq <= MaxAinos, ~InUse(u.heap[c])
  PROVE  ~ l[u.heap[c].uniq] > 0 /\ KeysOn(u, c) = {}
BY HoldersCounted

Lost(u, lost) == [h \in Handles |-> IF h \in lost THEN NoKey ELSE u.keys[h]]

\* Handles closed for a rename name nothing.
LEMMA KeysClosed ==
  ASSUME NEW u, NEW but, NEW lost, Sound(u, but), NEW v, v = CloseKeys(u, lost)
  PROVE  /\ Sound(v, but) /\ SameButKeys(u, v, Lost(u, lost))
         /\ \A h \in Handles : v.keys[h].aino = IF h \in lost THEN NoAino ELSE u.keys[h].aino
<1> DEFINE keys == Lost(u, lost)
<1>1. keys \in [Handles -> [aino : Int, output : BOOLEAN]]
  <2>1. NoKey \in [aino : Int, output : BOOLEAN]
    BY DEF NoKey, NoAino
  <2>2. \A h \in Handles : u.keys[h] \in [aino : Int, output : BOOLEAN]
    BY DEF Sound, Shape
  <2> QED BY <2>1, <2>2 DEF Lost
<1>2. \A h \in Handles : keys[h].aino = IF h \in lost THEN NoAino ELSE u.keys[h].aino
  BY DEF Lost, NoKey
<1>3. v = WithKeys(u, keys)
  BY DEF CloseKeys, WithKeys, Lost
<1> HIDE DEF keys
<1>4. Sound(v, but) /\ SameButKeys(u, v, keys)
  BY ONLY <1>1, <1>3, Sound(u, but), KeysSet
<1> QED BY <1>2, <1>4 DEF keys, SameButKeys

\* What a2 takes over from a1, and what is left of a1, which is freed then.
Places(u, v, a1, a2, list) ==
    /\ IsUnit(v) /\ v.total_locked_ainos = u.total_locked_ainos /\ v.a_uniq = u.a_uniq
    /\ v.lru = list /\ DOMAIN v.heap = DOMAIN u.heap \ {a1}
    /\ DOMAIN v.aino_hash = DOMAIN u.aino_hash
    /\ \A h \in DOMAIN u.aino_hash :
          v.aino_hash[h] = IF u.aino_hash[h] = a1 THEN NoAino ELSE u.aino_hash[h]
    /\ v.keys \in [Handles -> [aino : Int, output : BOOLEAN]]
    /\ \A h \in Handles : v.keys[h].aino = IF u.keys[h].aino = a1 THEN a2 ELSE u.keys[h].aino
    /\ \A d \in DOMAIN u.heap \ {a1} :
         LET of == IF d = a2 THEN a1 ELSE d
         IN  /\ IsAino(v.heap[d])
             /\ v.heap[d].uniq = u.heap[of].uniq /\ v.heap[d].dir = u.heap[of].dir
             /\ v.heap[d].shlock = u.heap[of].shlock /\ v.heap[d].elock = u.heap[of].elock
             /\ Range(v.heap[d].child) = Range(u.heap[of].child) \ {a1}
             /\ v.heap[d].parent = IF d # a2 /\ u.heap[d].parent = a1 THEN a2 ELSE u.heap[d].parent

\* The heap before a1 is freed.
Swapped(u, a1, a2) ==
    [c \in DOMAIN u.heap |->
       IF c = a1 THEN [u.heap[a1] EXCEPT !.child = <<>>, !.exnext_count = 0, !.locked_children = 0]
       ELSE IF c = a2 THEN [u.heap[a1] EXCEPT !.parent = u.heap[a2].parent, !.name = u.heap[a2].name]
       ELSE IF u.heap[c].parent = a1 THEN [u.heap[c] EXCEPT !.parent = a2]
       ELSE u.heap[c]]

Rekeyed(keys, a1, a2) ==
    [h \in Handles |-> IF keys[h].aino = a1 THEN [keys[h] EXCEPT !.aino = a2] ELSE keys[h]]

\* The a_inode made for a rename takes the place of the one renamed.
LEMMA PlaceTaken ==
  ASSUME NEW u, NEW but, NEW a1 \in DOMAIN u.heap, NEW a2 \in DOMAIN u.heap, Sound(u, but),
         a1 # a2, NEW v, v = delete_aino(TakePlace(u, a1, a2), a1)
  PROVE  Places(u, v, a1, a2, Without(u.lru, {a1}))
<1> DEFINE heap == Swapped(u, a1, a2)
           keys == Rekeyed(u.keys, a1, a2)
           gone == {a1}
<1>0. u = [heap |-> u.heap, lru |-> u.lru, total_locked_ainos |-> u.total_locked_ainos,
            aino_hash |-> u.aino_hash, exkeys |-> u.exkeys, keys |-> u.keys,
            a_uniq |-> u.a_uniq, broken |-> u.broken]
  BY DEF Sound, Shape, IsUnit
<1>1. PICK w : w = TakePlace(u, a1, a2)
  OBVIOUS
<1>2. w = [heap |-> heap, lru |-> u.lru, total_locked_ainos |-> u.total_locked_ainos,
           aino_hash |-> u.aino_hash, exkeys |-> w.exkeys, keys |-> keys,
           a_uniq |-> u.a_uniq, broken |-> u.broken]
  BY <1>0, <1>1 DEF TakePlace, Swapped, Rekeyed
<1>3. \E x : x = de_recycle_aino(w, a1)
  OBVIOUS
<1>4. PICK x : x = de_recycle_aino(w, a1)
  BY <1>3
<1>5. x = [heap |-> heap, lru |-> Without(u.lru, gone), total_locked_ainos |-> u.total_locked_ainos,
           aino_hash |-> u.aino_hash, exkeys |-> w.exkeys, keys |-> keys,
           a_uniq |-> u.a_uniq, broken |-> u.broken]
  <2> HIDE DEF heap, keys
  <2> QED BY <1>2, <1>4 DEF de_recycle_aino
<1>6. PICK y : y = AdvanceScans(x, a1)
  OBVIOUS
<1>7. y = [heap |-> heap, lru |-> Without(u.lru, gone), total_locked_ainos |-> u.total_locked_ainos,
           aino_hash |-> u.aino_hash, exkeys |-> y.exkeys, keys |-> keys,
           a_uniq |-> u.a_uniq, broken |-> u.broken]
  <2> HIDE DEF heap, keys, gone
  <2>1. y = x \/ \E scans : y = [x EXCEPT !.exkeys = scans]
    BY <1>6 DEF AdvanceScans
  <2> QED BY <1>5, <2>1
<1> DEFINE left == [d \in DOMAIN heap \ gone |-> Unlinked(heap[d], gone)]
           hash == [h \in DOMAIN u.aino_hash |->
                      IF u.aino_hash[h] \in gone /\ heap[u.aino_hash[h]].uniq % HashSize = h
                      THEN NoAino ELSE u.aino_hash[h]]
<1>8. v = [heap |-> left, lru |-> Without(u.lru, gone), total_locked_ainos |-> u.total_locked_ainos,
           aino_hash |-> hash, exkeys |-> v.exkeys, keys |-> keys,
           a_uniq |-> u.a_uniq, broken |-> u.broken]
  <2>1. v = dispose_ainos(y, gone)
    BY <1>1, <1>4, <1>6 DEF delete_aino
  <2> HIDE DEF heap, keys
  <2>2. v = [y EXCEPT !.heap = [d \in DOMAIN y.heap \ gone |-> Unlinked(y.heap[d], gone)],
                      !.aino_hash = [h \in DOMAIN y.aino_hash |->
                        IF y.aino_hash[h] \in gone /\ y.heap[y.aino_hash[h]].uniq % HashSize = h
                        THEN NoAino ELSE y.aino_hash[h]],
                      !.exkeys = [i \in DOMAIN y.exkeys |-> Relieved(y.exkeys[i], gone)]]
    BY <2>1 DEF dispose_ainos
  <2>3. y.heap = heap /\ y.aino_hash = u.aino_hash
    BY <1>7
  <2> DEFINE scans == [i \in DOMAIN y.exkeys |-> Relieved(y.exkeys[i], gone)]
  <2>4. v = [y EXCEPT !.heap = left, !.aino_hash = hash, !.exkeys = scans]
    <3> HIDE DEF scans
    <3>1. v = [y EXCEPT !.heap = [d \in DOMAIN y.heap \ gone |-> Unlinked(y.heap[d], gone)],
                        !.aino_hash = [h \in DOMAIN y.aino_hash |->
                          IF y.aino_hash[h] \in gone /\ y.heap[y.aino_hash[h]].uniq % HashSize = h
                          THEN NoAino ELSE y.aino_hash[h]],
                        !.exkeys = scans]
      BY <2>2 DEF scans
    <3> QED BY <2>3, <3>1
  <2> DEFINE lru == Without(u.lru, gone)
  <2> HIDE DEF left, hash, scans, lru
  <2>5. v = [heap |-> left, lru |-> lru, total_locked_ainos |-> u.total_locked_ainos,
             aino_hash |-> hash, exkeys |-> scans, keys |-> keys,
             a_uniq |-> u.a_uniq, broken |-> u.broken]
    <3>1. PICK e : e = y.exkeys
      OBVIOUS
    <3>2. y = [heap |-> heap, lru |-> lru, total_locked_ainos |-> u.total_locked_ainos,
               aino_hash |-> u.aino_hash, exkeys |-> e, keys |-> keys,
               a_uniq |-> u.a_uniq, broken |-> u.broken]
      BY <1>7, <3>1 DEF lru
    <3> QED BY ONLY <2>4, <3>2
  <2>6. v.exkeys = scans
    BY ONLY <2>5
  <2> QED BY <2>5, <2>6 DEF lru
<1>9. DOMAIN heap = DOMAIN u.heap
  BY DEF Swapped
<1>10. \A c \in DOMAIN u.heap : IsAino(u.heap[c])
  BY DEF Sound, Shape
<1>11. /\ heap[a1].uniq = u.heap[a1].uniq
       /\ \A d \in DOMAIN u.heap \ {a1} :
            LET of == IF d = a2 THEN a1 ELSE d
            IN  /\ IsAino(heap[d])
                /\ heap[d].uniq = u.heap[of].uniq /\ heap[d].dir = u.heap[of].dir
                /\ heap[d].shlock = u.heap[of].shlock /\ heap[d].elock = u.heap[of].elock
                /\ heap[d].child = u.heap[of].child
                /\ heap[d].parent = IF d # a2 /\ u.heap[d].parent = a1 THEN a2 ELSE u.heap[d].parent
  <2>1. heap[a1].uniq = u.heap[a1].uniq
    BY <1>10 DEF Swapped, IsAino
  <2>2. ASSUME NEW d \in DOMAIN u.heap \ {a1}, d = a2
        PROVE  /\ IsAino(heap[d])
               /\ heap[d].uniq = u.heap[a1].uniq /\ heap[d].dir = u.heap[a1].dir
               /\ heap[d].shlock = u.heap[a1].shlock /\ heap[d].elock = u.heap[a1].elock
               /\ heap[d].child = u.heap[a1].child /\ heap[d].parent = u.heap[d].parent
    <3>1. heap[d] = [u.heap[a1] EXCEPT !.parent = u.heap[a2].parent, !.name = u.heap[a2].name]
      BY <2>2 DEF Swapped
    <3> HIDE DEF heap
    <3> QED BY <1>10, <2>2, <3>1 DEF IsAino
  <2>3. ASSUME NEW d \in DOMAIN u.heap \ {a1}, d # a2
        PROVE  /\ IsAino(heap[d])
               /\ heap[d].uniq = u.heap[d].uniq /\ heap[d].dir = u.heap[d].dir
               /\ heap[d].shlock = u.heap[d].shlock /\ heap[d].elock = u.heap[d].elock
               /\ heap[d].child = u.heap[d].child
               /\ heap[d].parent = IF u.heap[d].parent = a1 THEN a2 ELSE u.heap[d].parent
    <3>1. heap[d] = IF u.heap[d].parent = a1 THEN [u.heap[d] EXCEPT !.parent = a2] ELSE u.heap[d]
      BY <2>3 DEF Swapped
    <3> HIDE DEF heap
    <3> QED BY <1>10, <2>3, <3>1 DEF IsAino
  <2> HIDE DEF heap
  <2> QED BY <2>1, <2>2, <2>3
<1> HIDE DEF heap
<1>12. IsUnit(v)
  BY <1>8 DEF IsUnit
<1>13. ASSUME NEW h \in DOMAIN u.aino_hash
       PROVE  v.aino_hash[h] = IF u.aino_hash[h] = a1 THEN NoAino ELSE u.aino_hash[h]
  <2>1. v.aino_hash[h] = IF u.aino_hash[h] \in gone /\ heap[u.aino_hash[h]].uniq % HashSize = h
                         THEN NoAino ELSE u.aino_hash[h]
    BY <1>8
  <2>2. a1 # NoAino
    BY DEF Sound, Shape, NoAino
  <2>3. u.aino_hash[h] = a1 => u.heap[a1].uniq % HashSize = h
    BY <2>2 DEF Sound, Hashed
  <2> QED BY <1>11, <2>1, <2>3
<1>14. /\ v.keys \in [Handles -> [aino : Int, output : BOOLEAN]]
       /\ \A h \in Handles : v.keys[h].aino = IF u.keys[h].aino = a1 THEN a2 ELSE u.keys[h].aino
  <2>1. u.keys \in [Handles -> [aino : Int, output : BOOLEAN]] /\ a2 \in Int
    BY DEF Sound, Shape
  <2>2. \A h \in Handles : /\ keys[h] \in [aino : Int, output : BOOLEAN]
                          /\ keys[h].aino = IF u.keys[h].aino = a1 THEN a2 ELSE u.keys[h].aino
    BY <2>1 DEF Rekeyed
  <2>3. keys = [h \in Handles |-> keys[h]]
    BY DEF Rekeyed
  <2>4. v.keys = keys
    BY <1>8
  <2> HIDE DEF keys
  <2> QED BY <2>2, <2>3, <2>4
<1>15. ASSUME NEW d \in DOMAIN u.heap \ {a1}
       PROVE  LET of == IF d = a2 THEN a1 ELSE d
              IN  /\ IsAino(v.heap[d])
                  /\ v.heap[d].uniq = u.heap[of].uniq /\ v.heap[d].dir = u.heap[of].dir
                  /\ v.heap[d].shlock = u.heap[of].shlock /\ v.heap[d].elock = u.heap[of].elock
                  /\ Range(v.heap[d].child) = Range(u.heap[of].child) \ {a1}
                  /\ v.heap[d].parent = IF d # a2 /\ u.heap[d].parent = a1 THEN a2 ELSE u.heap[d].parent
  <2> DEFINE of == IF d = a2 THEN a1 ELSE d
             list == Without(heap[d].child, gone)
  <2>1. IsAino(heap[d])
    BY <1>11
  <2>2. list \in Seq(Int) /\ Range(list) = Range(heap[d].child) \ gone
    BY <2>1, WithoutIs DEF IsAino
  <2>3. v.heap[d] = [heap[d] EXCEPT !.child = list]
    BY <1>8, <1>9 DEF Unlinked
  <2> HIDE DEF list
  <2>4. /\ IsAino(v.heap[d]) /\ v.heap[d].child = list
        /\ v.heap[d].uniq = heap[d].uniq /\ v.heap[d].dir = heap[d].dir
        /\ v.heap[d].shlock = heap[d].shlock /\ v.heap[d].elock = heap[d].elock
        /\ v.heap[d].parent = heap[d].parent
    BY <2>1, <2>2, <2>3 DEF IsAino
  <2>5. /\ heap[d].uniq = u.heap[of].uniq /\ heap[d].dir = u.heap[of].dir
        /\ heap[d].shlock = u.heap[of].shlock /\ heap[d].elock = u.heap[of].elock
        /\ heap[d].child = u.heap[of].child
        /\ heap[d].parent = IF d # a2 /\ u.heap[d].parent = a1 THEN a2 ELSE u.heap[d].parent
    BY <1>11
  <2> HIDE DEF of
  <2>6. /\ IsAino(v.heap[d])
        /\ v.heap[d].uniq = u.heap[of].uniq /\ v.heap[d].dir = u.heap[of].dir
        /\ v.heap[d].shlock = u.heap[of].shlock /\ v.heap[d].elock = u.heap[of].elock
        /\ Range(v.heap[d].child) = Range(u.heap[of].child) \ {a1}
        /\ v.heap[d].parent = IF d # a2 /\ u.heap[d].parent = a1 THEN a2 ELSE u.heap[d].parent
    BY <2>2, <2>4, <2>5
  <2> QED BY <2>6 DEF of
<1>16. /\ v.total_locked_ainos = u.total_locked_ainos /\ v.a_uniq = u.a_uniq
       /\ v.lru = Without(u.lru, {a1}) /\ DOMAIN v.heap = DOMAIN u.heap \ {a1}
       /\ DOMAIN v.aino_hash = DOMAIN u.aino_hash
  <2>1. DOMAIN left = DOMAIN u.heap \ {a1} /\ DOMAIN hash = DOMAIN u.aino_hash
    BY <1>9
  <2> HIDE DEF left, hash, keys
  <2> QED BY <1>8, <2>1
<1> QED BY <1>12, <1>13, <1>14, <1>15, <1>16 DEF Places

\* a1 has left for the new a_inode a2, which nothing else refers to.
Newcomer(u, a1, a2) ==
    /\ a1 # a2 /\ a1 # Root /\ a2 # Root
    /\ u.heap[a2].parent # a1 /\ u.heap[a2].dir = u.heap[a1].dir
    /\ \A d \in DOMAIN u.heap \ {Root} : u.heap[d].parent # a2
    /\ \A h \in DOMAIN u.aino_hash : u.aino_hash[h] # a2

\* With that the structure is sound again.
LEMMA PlacesSound ==
  ASSUME NEW u, NEW v, NEW a1 \in DOMAIN u.heap, NEW a2 \in DOMAIN u.heap, Sound(u, {}),
         Newcomer(u, a1, a2), NEW list \in Seq(Int), IsInjective(list), Range(list) = Idle(v),
         Places(u, v, a1, a2, list)
  PROVE  Sound(v, {})
<1> DEFINE Was(d) == IF d = a2 THEN a1 ELSE d
<1>1. Tree(u) /\ Shape(u) /\ Hashed(u)
  BY DEF Sound
<1>2. DOMAIN v.heap = DOMAIN u.heap \ {a1} /\ v.a_uniq = u.a_uniq
  BY DEF Places
<1>3. ASSUME NEW d \in DOMAIN v.heap
      PROVE  /\ Was(d) \in DOMAIN u.heap \ {a2} /\ IsAino(v.heap[d])
             /\ v.heap[d].uniq = u.heap[Was(d)].uniq /\ v.heap[d].dir = u.heap[Was(d)].dir
             /\ Range(v.heap[d].child) = Range(u.heap[Was(d)].child) \ {a1}
             /\ v.heap[d].parent = IF d # a2 /\ u.heap[d].parent = a1 THEN a2 ELSE u.heap[d].parent
  <2>1. d \in DOMAIN u.heap \ {a1}
    BY <1>2
  <2>2. Was(d) \in DOMAIN u.heap \ {a2}
    BY <2>1 DEF Newcomer
  <2> QED BY <2>1, <2>2 DEF Places
<1>4. \A d \in DOMAIN v.heap \ {a2} : Was(d) = d
  OBVIOUS
<1>5. Was(a2) = a1 /\ a2 \in DOMAIN v.heap /\ Root \in DOMAIN v.heap \ {a2}
  BY <1>1, <1>2 DEF Newcomer, Tree
<1>6. \A c, d \in DOMAIN v.heap : Was(c) = Was(d) => c = d
  BY <1>2
<1> HIDE DEF Was
<1>7. Shape(v)
  <2>1. DOMAIN v.heap \subseteq 0 .. v.a_uniq
    BY <1>1, <1>2 DEF Shape
  <2>2. v.lru \in Seq(Int) /\ v.total_locked_ainos \in Int /\ v.a_uniq \in Nat
    BY <1>1 DEF Places, Shape
  <2>3. IsUnit(v) /\ v.keys \in [Handles -> [aino : Int, output : BOOLEAN]]
    BY DEF Places
  <2> QED BY <1>3, <2>1, <2>2, <2>3 DEF Shape
<1>8. Tree(v)
  <2>1. v.heap[Root].dir /\ v.heap[Root].uniq = 0
    BY <1>1, <1>3, <1>4, <1>5 DEF Tree
  <2>2. ASSUME NEW c \in DOMAIN v.heap
        PROVE  /\ Range(v.heap[c].child) \subseteq DOMAIN v.heap
               /\ v.heap[c].uniq <= v.a_uniq
               /\ \A d \in DOMAIN v.heap : v.heap[c].uniq = v.heap[d].uniq => c = d
    <3>1. Range(v.heap[c].child) \subseteq DOMAIN v.heap
      <4>1. Range(u.heap[Was(c)].child) \subseteq DOMAIN u.heap
        BY <1>1, <1>3, <2>2 DEF Tree
      <4>2. Range(v.heap[c].child) = Range(u.heap[Was(c)].child) \ {a1}
        BY <1>3, <2>2
      <4> QED BY ONLY <1>2, <4>1, <4>2
    <3>2. v.heap[c].uniq <= v.a_uniq
      BY <1>1, <1>2, <1>3, <2>2 DEF Tree
    <3>3. ASSUME NEW d \in DOMAIN v.heap, v.heap[c].uniq = v.heap[d].uniq
          PROVE  c = d
      <4>1. u.heap[Was(c)].uniq = u.heap[Was(d)].uniq /\ Was(c) \in DOMAIN u.heap /\ Was(d) \in DOMAIN u.heap
        BY <1>3, <2>2, <3>3
      <4>2. Was(c) = Was(d)
        BY <1>1, <4>1 DEF Tree
      <4> QED BY <1>6, <4>2
    <3> QED BY <3>1, <3>2, <3>3
  <2>3. ASSUME NEW c \in DOMAIN v.heap \ {Root}
        PROVE  /\ v.heap[c].parent \in DOMAIN v.heap \ {c}
               /\ v.heap[v.heap[c].parent].dir
               /\ c \in Range(v.heap[v.heap[c].parent].child)
    <3>1. /\ c \in DOMAIN u.heap /\ c # a1 /\ u.heap[c].parent \in DOMAIN u.heap \ {c}
          /\ u.heap[u.heap[c].parent].dir /\ c \in Range(u.heap[u.heap[c].parent].child)
          /\ u.heap[c].parent # a2
      BY <1>1, <1>2 DEF Tree, Newcomer
    <3>2. CASE c # a2 /\ u.heap[c].parent = a1
      <4>1. v.heap[c].parent = a2
        BY <1>3, <3>2
      <4>2. v.heap[a2].dir = u.heap[a1].dir /\ Range(v.heap[a2].child) = Range(u.heap[a1].child) \ {a1}
        BY <1>3, <1>5
      <4> QED BY <1>5, <3>1, <3>2, <4>1, <4>2
    <3>3. CASE ~(c # a2 /\ u.heap[c].parent = a1)
      <4>1. u.heap[c].parent # a1
        BY <3>3 DEF Newcomer
      <4>2. v.heap[c].parent = u.heap[c].parent
        BY <1>3, <3>3
      <4>3. u.heap[c].parent \in DOMAIN v.heap \ {a2}
        BY <1>2, <3>1, <4>1
      <4>4. /\ v.heap[u.heap[c].parent].dir = u.heap[u.heap[c].parent].dir
            /\ Range(v.heap[u.heap[c].parent].child) = Range(u.heap[u.heap[c].parent].child) \ {a1}
        BY <1>3, <1>4, <4>3
      <4> QED BY <3>1, <4>2, <4>3, <4>4
    <3> QED BY <3>2, <3>3
  <2> QED BY <1>5, <2>1, <2>2, <2>3 DEF Tree
<1>9. Hashed(v)
  <2> SUFFICES ASSUME NEW h \in DOMAIN v.aino_hash, v.aino_hash[h] # NoAino
               PROVE  v.aino_hash[h] \in DOMAIN v.heap /\ v.heap[v.aino_hash[h]].uniq % HashSize = h
    BY DEF Hashed
  <2> DEFINE c == u.aino_hash[h]
  <2>1. h \in DOMAIN u.aino_hash /\ v.aino_hash[h] = c /\ c # a1
    BY DEF Places
  <2>2. c \in DOMAIN u.heap /\ u.heap[c].uniq % HashSize = h /\ c # a2
    BY <1>1, <2>1 DEF Hashed, Newcomer
  <2> HIDE DEF c
  <2>3. c \in DOMAIN v.heap \ {a2}
    BY <1>2, <2>1, <2>2
  <2> QED BY <1>3, <1>4, <2>1, <2>2, <2>3
<1>10. Listed(v, {})
  BY DEF Listed, Places
<1> QED BY <1>7, <1>8, <1>9, <1>10 DEF Sound

\* Handles on c are lost: c keeps counting them.
LEMMA Losing ==
  ASSUME NEW a, NEW n \in Nat, NEW K, NEW lost \in SUBSET K, IsFiniteSet(K), IsAino(a), NEW r, NEW r2,
         Agree(a, n + Cardinality(K), r), r2 = IF lost = {} THEN r ELSE r \cup {a.uniq}
  PROVE  Agree(a, n + Cardinality(K \ lost), r2)
<1> DEFINE k == Cardinality(K)
           m == Cardinality(K \ lost)
<1>1. CASE lost = {}
  <2>1. K \ lost = K /\ r2 = r
    BY <1>1
  <2> QED BY <2>1
<1>2. CASE lost # {}
  <2>1. IsFiniteSet(K \ lost) /\ m \in Nat /\ k \in Nat
    BY FS_Subset, FS_CardinalityType
  <2>2. m < k
    <3> DEFINE R == K \ lost
    <3>1. R \in SUBSET K /\ K # R
      BY <1>2
    <3> HIDE DEF R
    <3>2. Cardinality(R) <= Cardinality(K) /\ Cardinality(K) # Cardinality(R)
      BY ONLY <3>1, IsFiniteSet(K), FS_Subset
    <3>3. m = Cardinality(R)
      BY DEF R
    <3> HIDE DEF m, k
    <3>4. k = Cardinality(K)
      BY DEF k
    <3> QED BY ONLY <2>1, <3>2, <3>3, <3>4
  <2>3. a.uniq \in r2 /\ a.shlock \in Nat
    BY <1>2 DEF IsAino
  <2> HIDE DEF k, m
  <2>4. Agree(a, n + k, r)
    BY DEF k
  <2>5. Agree(a, n + m, r2)
    BY <2>1, <2>2, <2>3, <2>4 DEF Agree
  <2> QED BY <2>5 DEF m
<1> QED BY <1>1, <1>2

\* Handles lost in a rename are counted still, and remembered.
LEMMA KeysLost ==
  ASSUME NEW u, NEW l, NEW r, NEW r2, Sound(u, {}), Counted(u, l, r), u.a_uniq <= MaxAinos,
         NEW c \in DOMAIN u.heap, NEW lost \in SUBSET KeysOn(u, c),
         r2 = IF lost = {} THEN r ELSE r \cup {u.heap[c].uniq}, NEW v, v = CloseKeys(u, lost)
  PROVE  /\ Sound(v, {}) /\ Counted(v, l, r2)
         /\ v.heap = u.heap /\ v.a_uniq = u.a_uniq /\ v.aino_hash = u.aino_hash /\ v.lru = u.lru
<1>1. /\ Sound(v, {}) /\ SameButKeys(u, v, Lost(u, lost))
      /\ \A h \in Handles : v.keys[h].aino = IF h \in lost THEN NoAino ELSE u.keys[h].aino
  BY ONLY Sound(u, {}), v = CloseKeys(u, lost), KeysClosed
<1>2. v.heap = u.heap /\ v.a_uniq = u.a_uniq /\ v.aino_hash = u.aino_hash /\ v.lru = u.lru
  BY <1>1 DEF SameButKeys
<1>3. \A d \in DOMAIN u.heap : d # NoAino
  BY DEF Sound, Shape, NoAino
<1>4. \A d \in DOMAIN u.heap \ {c} : KeysOn(v, d) = KeysOn(u, d)
  BY <1>1, <1>3 DEF KeysOn
<1>5. KeysOn(v, c) = KeysOn(u, c) \ lost
  BY <1>1, <1>3 DEF KeysOn
<1>6. /\ u.heap[c].uniq \in Uniqs /\ l[u.heap[c].uniq] \in Nat
      /\ Agree(u.heap[c], l[u.heap[c].uniq] + Cardinality(KeysOn(u, c)), r)
  BY HoldersCounted DEF HoldersOf
<1>7. IsAino(u.heap[c]) /\ IsFiniteSet(KeysOn(u, c))
  BY KeysCount DEF Sound, Shape
<1>8. Agree(u.heap[c], l[u.heap[c].uniq] + Cardinality(KeysOn(u, c) \ lost), r2)
  BY <1>6, <1>7, Losing
<1>9. HeldElsewhere(u, v, l, l, r, r2, c)
  <2>1. l \in [Uniqs -> Nat] /\ r2 \subseteq Uniqs
    BY <1>6 DEF Counted
  <2> QED BY <1>1, <1>2, <1>4, <2>1 DEF HeldElsewhere, SameAino
<1>10. Agree(v.heap[c], HoldersOf(v, l, c), r2)
  BY <1>2, <1>5, <1>8 DEF HoldersOf
<1>11. Counted(v, l, r2)
  BY <1>9, <1>10, OneCounted
<1> QED BY <1>1, <1>2, <1>11

\* Who held a1 holds a2 now.
LEMMA PlacesCounted ==
  ASSUME NEW u, NEW v, NEW l, NEW r, NEW a1 \in DOMAIN u.heap, NEW a2 \in DOMAIN u.heap, Sound(u, {}),
         Counted(u, l, r), u.a_uniq <= MaxAinos, Newcomer(u, a1, a2), ~InUse(u.heap[a2]),
         NEW list, Places(u, v, a1, a2, list)
  PROVE  Counted(v, l, r)
<1>1. ~ l[u.heap[a2].uniq] > 0 /\ KeysOn(u, a2) = {}
  BY UnusedUnheld
<1>2. \A d \in DOMAIN u.heap : d # NoAino
  BY DEF Sound, Shape, NoAino
<1>3. /\ DOMAIN v.heap = DOMAIN u.heap \ {a1} /\ v.a_uniq = u.a_uniq /\ a1 # a2
      /\ \A h \in Handles : v.keys[h].aino = IF u.keys[h].aino = a1 THEN a2 ELSE u.keys[h].aino
  BY DEF Places, Newcomer
<1>4. ASSUME NEW d \in DOMAIN u.heap \ {a1, a2}
      PROVE  KeysOn(v, d) = KeysOn(u, d)
  BY <1>3 DEF KeysOn
<1>5. KeysOn(v, a2) = KeysOn(u, a1)
  BY <1>1, <1>3 DEF KeysOn
<1>6. l \in [Uniqs -> Nat] /\ r \subseteq Uniqs /\ \A uniq \in r : uniq <= v.a_uniq
  BY <1>3 DEF Counted
<1>7. ASSUME NEW uniq \in Uniqs, l[uniq] > 0
      PROVE  \E c \in DOMAIN v.heap : v.heap[c].uniq = uniq
  <2>1. PICK c \in DOMAIN u.heap : u.heap[c].uniq = uniq
    BY <1>7 DEF Counted
  <2>2. c # a2
    BY <1>1, <1>7, <2>1
  <2>3. CASE c = a1
    <3>1. a2 \in DOMAIN v.heap /\ v.heap[a2].uniq = uniq
      BY <1>3, <2>1, <2>3 DEF Places
    <3> QED BY <3>1
  <2>4. CASE c # a1
    <3>1. c \in DOMAIN v.heap /\ v.heap[c].uniq = uniq
      BY <1>3, <2>1, <2>2, <2>4 DEF Places
    <3> QED BY <3>1
  <2> QED BY <2>3, <2>4
<1>8. ASSUME NEW h \in Handles
      PROVE  v.keys[h].aino = NoAino \/ v.keys[h].aino \in DOMAIN v.heap
  BY <1>3 DEF Counted
<1>9. ASSUME NEW d \in DOMAIN v.heap
      PROVE  Agree(v.heap[d], l[v.heap[d].uniq] + Cardinality(KeysOn(v, d)), r)
  <2> DEFINE of == IF d = a2 THEN a1 ELSE d
  <2>1. of \in DOMAIN u.heap /\ KeysOn(v, d) = KeysOn(u, of)
    BY <1>3, <1>4, <1>5
  <2>2. /\ v.heap[d].uniq = u.heap[of].uniq
        /\ v.heap[d].shlock = u.heap[of].shlock /\ v.heap[d].elock = u.heap[of].elock
    BY <1>3 DEF Places
  <2> HIDE DEF of
  <2>3. Agree(u.heap[of], l[u.heap[of].uniq] + Cardinality(KeysOn(u, of)), r)
    BY <2>1 DEF Counted
  <2> QED BY <2>1, <2>2, <2>3 DEF Agree
<1> QED BY <1>6, <1>7, <1>8, <1>9 DEF Counted

\* a2 taken off the list as well.
LEMMA PlaceKept ==
  ASSUME NEW u, NEW v, NEW a1, NEW a2, NEW list, Places(u, v, a1, a2, list),
         NEW w, w = de_recycle_aino(v, a2)
  PROVE  Places(u, w, a1, a2, Without(list, {a2}))
<1> DEFINE rest == Without(list, {a2})
<1>1. IsUnit(v) /\ v.lru = list
  BY DEF Places
<1>2. w = [v EXCEPT !.lru = rest]
  BY <1>1 DEF de_recycle_aino
<1> HIDE DEF rest
<1>3. /\ IsUnit(w) /\ w.heap = v.heap /\ w.lru = rest /\ w.total_locked_ainos = v.total_locked_ainos
      /\ w.aino_hash = v.aino_hash /\ w.keys = v.keys /\ w.a_uniq = v.a_uniq
  BY <1>1, <1>2 DEF IsUnit
<1>4. Places(u, w, a1, a2, rest)
  BY <1>3 DEF Places
<1> QED BY <1>4 DEF rest

\* The list is right, whether a1 was in use or not.
LEMMA Renamed ==
  ASSUME NEW u, NEW l, NEW r, NEW a1 \in DOMAIN u.heap, NEW a2 \in DOMAIN u.heap, Sound(u, {}),
         Counted(u, l, r), u.a_uniq <= MaxAinos, Newcomer(u, a1, a2), ~InUse(u.heap[a2]),
         NEW v, v = delete_aino(TakePlace(u, a1, a2), a1),
         NEW w, w = IF InUse(u.heap[a1]) THEN de_recycle_aino(v, a2) ELSE v
  PROVE  Sound(w, {}) /\ Counted(w, l, r) /\ w.a_uniq = u.a_uniq
<1> DEFINE one == Without(u.lru, {a1})
           two == Without(one, {a2})
           list == IF InUse(u.heap[a1]) THEN two ELSE one
<1>0. a1 # a2
  BY DEF Newcomer
<1>1. Places(u, v, a1, a2, one)
  BY ONLY <1>0, Sound(u, {}), a1 \in DOMAIN u.heap, a2 \in DOMAIN u.heap,
          v = delete_aino(TakePlace(u, a1, a2), a1), PlaceTaken
<1>2. u.lru \in Seq(Int) /\ IsInjective(u.lru) /\ Range(u.lru) = Idle(u)
  BY DEF Sound, Shape, Listed
<1>3. one \in Seq(Int) /\ IsInjective(one) /\ Range(one) = Idle(u) \ {a1}
  BY <1>2, WithoutIs
<1> HIDE DEF one
<1>4. two \in Seq(Int) /\ IsInjective(two) /\ Range(two) = (Idle(u) \ {a1}) \ {a2}
  BY <1>3, WithoutIs
<1> HIDE DEF two
<1>5. Places(u, w, a1, a2, list)
  <2>1. CASE InUse(u.heap[a1])
    <3>1. w = de_recycle_aino(v, a2)
      BY <2>1
    <3>2. Places(u, w, a1, a2, two)
      BY ONLY <1>1, <3>1, PlaceKept DEF two
    <3> QED BY <2>1, <3>2
  <2>2. CASE ~InUse(u.heap[a1])
    BY <1>1, <2>2
  <2> QED BY <2>1, <2>2
<1>6. list \in Seq(Int) /\ IsInjective(list)
  BY <1>3, <1>4
<1>7. Range(list) = Idle(w)
  <2>1. /\ \A d \in DOMAIN u.heap \ {a1, a2} : d \in Idle(w) <=> d \in Idle(u)
        /\ Idle(w) \subseteq DOMAIN u.heap \ {a1} /\ Idle(u) \subseteq DOMAIN u.heap
    <3>1. \A d \in DOMAIN u.heap \ {a1, a2} :
            /\ d \in DOMAIN w.heap
            /\ w.heap[d].dir = u.heap[d].dir /\ (InUse(w.heap[d]) <=> InUse(u.heap[d]))
      BY <1>5 DEF Places, InUse
    <3>2. DOMAIN w.heap = DOMAIN u.heap \ {a1}
      BY <1>5 DEF Places
    <3> QED BY <3>1, <3>2 DEF Idle
  <2>2. a2 \in Idle(w) <=> ~u.heap[a1].dir /\ ~InUse(u.heap[a1])
    <3>1. a2 \in DOMAIN w.heap /\ w.heap[a2].dir = u.heap[a1].dir
      BY <1>0, <1>5 DEF Places
    <3>2. InUse(w.heap[a2]) <=> InUse(u.heap[a1])
      BY <1>0, <1>5 DEF Places, InUse
    <3> QED BY <3>1, <3>2 DEF Idle
  <2>3. a2 \in Idle(u) <=> ~u.heap[a1].dir
    BY DEF Idle, Newcomer
  <2>4. CASE InUse(u.heap[a1])
    <3>1. Range(list) = (Idle(u) \ {a1}) \ {a2}
      BY <1>4, <2>4
    <3> QED BY <2>1, <2>2, <2>4, <3>1
  <2>5. CASE ~InUse(u.heap[a1])
    <3>1. Range(list) = Idle(u) \ {a1}
      BY <1>3, <2>5
    <3> QED BY <2>1, <2>2, <2>3, <2>5, <3>1
  <2> QED BY <2>4, <2>5
<1> HIDE DEF list
<1>8. Sound(w, {})
  BY <1>5, <1>6, <1>7, PlacesSound
<1>9. Counted(w, l, r)
  BY <1>5, PlacesCounted
<1>10. w.a_uniq = u.a_uniq
  BY <1>5 DEF Places
<1> QED BY <1>8, <1>9, <1>10

\* A release makes no new a_inode.
LEMMA Released ==
  ASSUME NEW u, NEW c \in DOMAIN u.heap, Sound(u, {}), InUse(u.heap[c]), NEW v, v = Release(u, c)
  PROVE  Sound(v, {}) /\ v.a_uniq = u.a_uniq
<1> DEFINE a == Less(u.heap[c])
           but == {c}
<1>1. PICK x : x = WithAino(u, c, a)
  OBVIOUS
<1>2. v = recycle_aino(x, c)
  BY <1>1, ReleaseIs
<1>3. Kin(u.heap[c], a)
  BY LessIs DEF Sound, Shape
<1>4. Sound(u, but)
  <2>1. c \notin Idle(u) /\ {} \cup {c} = but
    BY DEF Idle
  <2> QED BY <2>1, InUseIsNotListed
<1> HIDE DEF a
<1>5. Sound(x, but) /\ Rewritten(u, x, c, a)
  BY <1>1, <1>3, <1>4, AinoWritten
<1>6. c \in DOMAIN x.heap /\ x.a_uniq = u.a_uniq
  BY <1>5 DEF Rewritten
<1>7. Sound(v, {}) /\ v.a_uniq = x.a_uniq
  BY ONLY <1>2, <1>5, <1>6, Recycled DEF but
<1> QED BY <1>6, <1>7

-----------------------------------------------------------------------------
(* Packets.                                                                *)

\* A unit as lookups leave it.
Looked(u) == Sound(u, {}) /\ Keeps(unit, u)

\* A packet begins with the unit as the last one left it.
LEMMA ItselfLooked ==
  ASSUME UnitIInv
  PROVE  Looked(unit) /\ unit.a_uniq <= work.ainos
BY KeepsItself DEF UnitIInv, Looked

\* A search leaves the counts to be what the clients hold.
LEMMA LookedCounts ==
  ASSUME UnitIInv, NEW u, Looked(u), u.a_uniq <= work.ainos
  PROVE  Sound(u, {}) /\ Counted(u, locks, recounted) /\ u.a_uniq <= MaxAinos
<1>1. u.a_uniq \in Nat
  BY DEF Looked, Sound, Shape
<1>2. work.ainos \in 0 .. MaxAinos /\ MaxAinos \in Nat
  BY Bounds DEF UnitIInv
<1>3. u.a_uniq <= MaxAinos
  BY <1>1, <1>2
<1>4. Sound(unit, {}) /\ Counted(unit, locks, recounted)
  BY DEF UnitIInv
<1>5. Counted(u, locks, recounted)
  BY ONLY <1>3, <1>4, Looked(u), KeepsCounts DEF Looked
<1> QED BY <1>3, <1>5 DEF Looked

\* Where a packet may end.
LEMMA PacketEnds ==
  ASSUME UnitIInv, UNCHANGED work, NEW w, Leave(w), Sound(w, {}), Counted(w, locks', recounted')
  PROVE  UnitIInv'
BY DEF UnitIInv, Leave

\* A packet that is refused may have searched.
LEMMA Refused ==
  ASSUME UnitIInv, UNCHANGED work, NEW u, Looked(u), Refuse(u)
  PROVE  UnitIInv'
<1>1. Leave(u) /\ u.a_uniq <= work.ainos /\ UNCHANGED <<locks, recounted>>
  BY DEF Refuse, Leave
<1>2. Sound(u, {}) /\ Counted(u, locks, recounted)
  BY <1>1, LookedCounts
<1> QED BY <1>1, <1>2, PacketEnds

\* A lock more.
LEMMA LockGiven ==
  ASSUME UnitIInv, UNCHANGED work, NEW u, Looked(u), NEW c \in DOMAIN u.heap, NEW excl \in BOOLEAN,
         ~u.heap[c].elock, excl => u.heap[c].shlock = 0,
         Leave(Hold(u, c, excl)), Take(u.heap[c].uniq), UNCHANGED recounted
  PROVE  UnitIInv'
<1>1. PICK v : v = Hold(u, c, excl)
  OBVIOUS
<1>2. v.a_uniq = u.a_uniq
  BY <1>1, HoldIs DEF Looked, Rewrites
<1>3. Leave(v) /\ u.a_uniq <= work.ainos
  BY <1>1, <1>2 DEF Leave
<1>4. Sound(u, {}) /\ Counted(u, locks, recounted) /\ u.a_uniq <= MaxAinos
  BY <1>3, LookedCounts
<1>5. Sound(v, {}) /\ Counted(v, locks', recounted)
  BY <1>1, <1>4, LockTaken
<1> QED BY <1>3, <1>5, PacketEnds

\* ACTION_LOCATE_OBJECT.
LEMMA Locked ==
  ASSUME UnitIInv, UNCHANGED work, NEW f, Search(unit, f), NEW excl \in BOOLEAN, action_lock(f, excl)
  PROVE  UnitIInv'
<1> DEFINE a == f.u.heap[f.at]
           no == f.err # "ok" \/ a.elock \/ (excl /\ a.shlock > 0)
<1>1. Looked(f.u)
  BY DEF Search, Looked
<1>2. CASE no
  BY <1>1, <1>2, Refused DEF action_lock
<1>3. CASE ~no
  <2>1. f.at \in DOMAIN f.u.heap /\ ~a.elock
    BY <1>3 DEF Search
  <2>2. a.shlock \in Nat
    BY <1>1, <2>1 DEF Looked, Sound, Shape, IsAino
  <2>3. excl => a.shlock = 0
    BY <1>3, <2>2
  <2>4. Leave(Hold(f.u, f.at, excl)) /\ Take(a.uniq) /\ UNCHANGED recounted
    BY <1>3 DEF action_lock
  <2> QED BY <1>1, <2>1, <2>3, <2>4, LockGiven
<1> QED BY <1>2, <1>3

\* A shared one.
LEMMA Shared ==
  ASSUME UnitIInv, UNCHANGED work, NEW u, Looked(u), NEW c \in DOMAIN u.heap, Share(u, c)
  PROVE  UnitIInv'
<1>1. CASE u.heap[c].elock
  BY <1>1, Refused DEF Share
<1>2. CASE ~u.heap[c].elock
  <2>1. Leave(Hold(u, c, FALSE)) /\ Take(u.heap[c].uniq) /\ UNCHANGED recounted
    BY <1>2 DEF Share
  <2>2. PICK excl \in BOOLEAN : excl = FALSE
    OBVIOUS
  <2>3. Leave(Hold(u, c, excl)) /\ (excl => u.heap[c].shlock = 0)
    BY <2>1, <2>2
  <2> QED BY <1>2, <2>1, <2>3, LockGiven
<1> QED BY <1>1, <1>2

\* What a lock or a handle names.
LEMMA NamedLooked ==
  ASSUME UnitIInv, NEW uniq, NEW f, f = lookup_aino(unit, uniq)
  PROVE  /\ LooksUp(unit, f, uniq) /\ Looked(f.u) /\ f.u.a_uniq <= work.ainos
         /\ f.at # NoAino => f.at \in DOMAIN f.u.heap
<1>1. Sound(unit, {}) /\ unit.a_uniq <= work.ainos
  BY DEF UnitIInv
<1>2. LooksUp(unit, f, uniq)
  BY ONLY <1>1, f = lookup_aino(unit, uniq), LockLookedUp
<1> QED BY <1>1, <1>2 DEF LooksUp, Search, Looked

\* ACTION_COPY_DIR.
LEMMA DupLocked ==
  ASSUME UnitIInv, UNCHANGED work, NEW uniq, NEW f, f = lookup_aino(unit, uniq),
         IF f.at = NoAino THEN Refuse(f.u) ELSE Share(f.u, f.at)
  PROVE  UnitIInv'
<1>1. Looked(f.u) /\ (f.at # NoAino => f.at \in DOMAIN f.u.heap)
  BY NamedLooked
<1> QED BY <1>1, Refused, Shared

\* ACTION_PARENT and ACTION_PARENT_FH.
LEMMA ParentLocked ==
  ASSUME UnitIInv, UNCHANGED work, NEW uniq, ParentOf(uniq)
  PROVE  UnitIInv'
<1>1. PICK f : f = lookup_aino(unit, uniq)
  OBVIOUS
<1>2. Looked(f.u) /\ (f.at # NoAino => f.at \in DOMAIN f.u.heap)
  BY <1>1, NamedLooked
<1>3. CASE f.at \in {NoAino, Root}
  BY <1>1, <1>2, <1>3, Refused DEF ParentOf
<1>4. CASE f.at \notin {NoAino, Root}
  <2>1. f.u.heap[f.at].parent \in DOMAIN f.u.heap
    BY <1>2, <1>4 DEF Looked, Sound, Tree
  <2>2. Share(f.u, f.u.heap[f.at].parent)
    BY <1>1, <1>4 DEF ParentOf
  <2> QED BY <1>2, <2>1, <2>2, Shared
<1> QED BY <1>3, <1>4

\* ACTION_FREE_LOCK.
LEMMA LockFreed ==
  ASSUME UnitIInv, UNCHANGED work, NEW uniq \in Uniqs, action_free_lock(uniq)
  PROVE  UnitIInv'
<1>1. PICK f : f = lookup_aino(unit, uniq)
  OBVIOUS
<1>2. LooksUp(unit, f, uniq) /\ Looked(f.u) /\ (f.at # NoAino => f.at \in DOMAIN f.u.heap)
      /\ f.u.a_uniq <= work.ainos
  BY <1>1, NamedLooked
<1>3. CASE f.at = NoAino
  BY <1>1, <1>2, <1>3, Refused DEF action_free_lock
<1>4. CASE f.at # NoAino
  <2>1. PICK v, u, c : v = Release(u, c) /\ u = f.u /\ c = f.at
    OBVIOUS
  <2>2. c \in DOMAIN u.heap /\ u.heap[c].uniq = uniq
    BY <1>2, <1>4, <2>1 DEF LooksUp
  <2>3. Leave(v) /\ Drop(u.heap[c].uniq) /\ locks[u.heap[c].uniq] > 0 /\ UNCHANGED recounted
    BY <1>1, <1>4, <2>1, <2>2 DEF action_free_lock, Held
  <2>4. Sound(u, {}) /\ Counted(u, locks, recounted) /\ u.a_uniq <= MaxAinos
    BY <1>2, <2>1, LookedCounts
  <2>5. v.a_uniq <= work.ainos /\ InUse(u.heap[c])
    <3>1. InUse(u.heap[c])
      BY <2>2, <2>3, <2>4, HoldersCounted
    <3> QED BY <2>3, <3>1 DEF Leave
  <2>6. v.a_uniq = u.a_uniq
    BY <2>1, <2>2, <2>4, <2>5, Released
  <2>7. v.a_uniq <= MaxAinos
    BY <2>4, <2>6
  <2>8. Sound(v, {}) /\ Counted(v, locks', recounted)
    BY <2>1, <2>2, <2>3, <2>4, <2>7, LockDropped
  <2> QED BY <2>3, <2>8, PacketEnds
<1> QED BY <1>3, <1>4

\* The lock's holder is the handle's.
LEMMA FromLock ==
  ASSUME UnitIInv, UNCHANGED work, NEW uniq \in Uniqs, NEW h \in Handles, action_fh_from_lock(uniq, h)
  PROVE  UnitIInv'
<1>1. PICK f : f = LookupOrRoot(unit, uniq)
  OBVIOUS
<1>2. /\ Search(unit, f) /\ f.at \in DOMAIN f.u.heap /\ f.u.a_uniq = unit.a_uniq
      /\ f.u.heap[f.at].uniq = uniq
  <2>1. /\ Search(unit, f) /\ f.at \in DOMAIN f.u.heap /\ f.u.a_uniq = unit.a_uniq
        /\ (uniq # NoLock /\ \E c \in DOMAIN unit.heap : unit.heap[c].uniq = uniq)
              => f.u.heap[f.at].uniq = uniq
    BY ONLY <1>1, UnitIInv, BaseLookedUp DEF UnitIInv
  <2>2. uniq # NoLock
    BY Bounds DEF Uniqs, NoLock
  <2>3. \E c \in DOMAIN unit.heap : unit.heap[c].uniq = uniq
    BY DEF action_fh_from_lock, Held, UnitIInv, Counted
  <2> QED BY <2>1, <2>2, <2>3
<1>3. Looked(f.u) /\ f.u.a_uniq <= work.ainos
  BY <1>2 DEF Search, Looked, UnitIInv
<1> DEFINE no == f.u.heap[f.at].dir \/ ~OnDisk(f.u, f.at)
<1>4. CASE no
  BY <1>1, <1>3, <1>4, Refused DEF action_fh_from_lock
<1>5. CASE ~no
  <2>0. PICK output \in BOOLEAN : output = FALSE
    OBVIOUS
  <2>1. PICK u, c, v : u = f.u /\ c = f.at /\ v = de_recycle_aino(SetKey(u, h, c, output), c)
    OBVIOUS
  <2>2. Sound(u, {}) /\ Counted(u, locks, recounted) /\ u.a_uniq <= MaxAinos
    BY <1>3, <2>1, LookedCounts
  <2>3. c \in DOMAIN u.heap /\ u.heap[c].uniq = uniq
    BY <1>2, <2>1
  <2>4. u.keys[h].aino = NoAino
    <3>1. h \in FreeHandles /\ u.keys = unit.keys
      BY <1>3, <2>1 DEF action_fh_from_lock, Looked, Keeps
    <3> QED BY <3>1 DEF FreeHandles
  <2>5. Leave(v) /\ Drop(uniq) /\ locks[uniq] > 0 /\ UNCHANGED recounted
    BY <1>1, <1>5, <2>0, <2>1 DEF action_fh_from_lock, Held
  <2>6. Sound(v, {}) /\ Counted(v, locks', recounted)
    BY <2>1, <2>2, <2>3, <2>4, <2>5, HandleFromLock
  <2> QED BY <2>5, <2>6, PacketEnds
<1> QED BY <1>4, <1>5

\* A handle opened.
LEMMA Opens ==
  ASSUME UnitIInv, UNCHANGED work, NEW u, Looked(u), NEW c \in DOMAIN u.heap, NEW excl \in BOOLEAN,
         ~u.heap[c].elock, excl => u.heap[c].shlock = 0, NEW h \in FreeHandles,
         Leave(Hold(SetKey(u, h, c, excl), c, excl)), UNCHANGED <<locks, recounted>>
  PROVE  UnitIInv'
<1>1. PICK x, v : x = SetKey(u, h, c, excl) /\ v = Hold(x, c, excl)
  OBVIOUS
<1>2. h \in Handles /\ u.keys[h].aino = NoAino
  BY DEF FreeHandles, Looked, Keeps
<1>3. v.a_uniq = u.a_uniq
  <2> DEFINE keys == [u.keys EXCEPT ![h] = [aino |-> c, output |-> excl]]
  <2>1. u.keys \in [Handles -> [aino : Int, output : BOOLEAN]] /\ c \in Int /\ Sound(u, {})
    BY DEF Looked, Sound, Shape
  <2>2. keys \in [Handles -> [aino : Int, output : BOOLEAN]]
    BY <1>2, <2>1
  <2>3. x = WithKeys(u, keys)
    BY <1>1, <2>1 DEF SetKey, WithKeys, Sound, Shape, IsUnit
  <2> HIDE DEF keys
  <2>4. Sound(x, {}) /\ SameButKeys(u, x, keys)
    BY ONLY <2>1, <2>2, <2>3, KeysSet
  <2>5. c \in DOMAIN x.heap /\ x.a_uniq = u.a_uniq
    BY <2>4 DEF SameButKeys
  <2> QED BY <1>1, <2>4, <2>5, HoldIs DEF Rewrites
<1>4. Leave(v) /\ u.a_uniq <= work.ainos
  BY <1>1, <1>3 DEF Leave
<1>5. Sound(u, {}) /\ Counted(u, locks, recounted) /\ u.a_uniq <= MaxAinos
  BY <1>4, LookedCounts
<1>6. Sound(v, {}) /\ Counted(v, locks, recounted)
  BY <1>1, <1>2, <1>5, HandleOpened
<1> QED BY <1>4, <1>6, PacketEnds

\* Lookups only.
LEMMA LookedEnds ==
  ASSUME UnitIInv, UNCHANGED work, NEW u, Looked(u), Leave(u), UNCHANGED <<locks, recounted>>
  PROVE  UnitIInv'
<1>1. u.a_uniq <= work.ainos
  BY DEF Leave
<1>2. Sound(u, {}) /\ Counted(u, locks, recounted)
  BY <1>1, LookedCounts
<1> QED BY <1>2, PacketEnds

\* An a_inode nobody uses is deleted.
LEMMA UnusedDeleted ==
  ASSUME UnitIInv, UNCHANGED work, NEW u, NEW r, Sound(u, {}), Counted(u, locks, r), u.a_uniq <= MaxAinos,
         NEW c \in DOMAIN u.heap, ~InUse(u.heap[c]), Leaves(u, {c}), Leave(delete_aino(u, c)),
         locks' = locks, recounted' = r
  PROVE  UnitIInv'
<1> DEFINE but == {}
<1>1. PICK w : w = delete_aino(u, c)
  OBVIOUS
<1>2. but \ {c} = {}
  OBVIOUS
<1>3. Sound(w, but) /\ Deletes(u, w, c)
  BY ONLY <1>1, <1>2, Sound(u, {}), Leaves(u, {c}), Deleted
<1>4. Counted(w, locks, r)
  BY <1>3, DeletedCounts
<1> QED BY <1>1, <1>3, <1>4, PacketEnds

\* A new child.
LEMMA ChildMade ==
  ASSUME UnitIInv, NEW u, Looked(u), NEW dir \in DOMAIN u.heap, u.heap[dir].dir, NEW name,
         NEW isdir \in BOOLEAN, NEW g, g = AddChild(u, dir, name, isdir)
  PROVE  /\ Looked(g.u) /\ Added(u, g.u, g.at, dir, isdir) /\ g.at \in DOMAIN g.u.heap
         /\ Leaves(g.u, {g.at}) /\ ~InUse(g.u.heap[g.at]) /\ g.at # Root /\ u.a_uniq <= g.u.a_uniq
<1>1. Sound(u, {}) /\ Keeps(unit, u)
  BY DEF Looked
<1>2. Sound(g.u, {}) /\ Added(u, g.u, g.at, dir, isdir)
  BY ONLY <1>1, dir \in DOMAIN u.heap, u.heap[dir].dir, isdir \in BOOLEAN,
          g = AddChild(u, dir, name, isdir), ChildAdded
<1>3. Keeps(unit, g.u)
  BY <1>1, <1>2, KeepsOn DEF Added, UnitIInv
<1>4. g.at \in DOMAIN g.u.heap /\ g.at # Root
  BY <1>1, <1>2 DEF Added, Sound, Shape, Root
<1>5. Leaves(g.u, {g.at})
  BY <1>2, <1>4 DEF Added, Leaves
<1>6. ~InUse(g.u.heap[g.at]) /\ u.a_uniq <= g.u.a_uniq
  BY <1>1, <1>2 DEF Added, InUse, Sound, Shape
<1> QED BY <1>2, <1>3, <1>4, <1>5, <1>6 DEF Looked

\* A packet that deletes what nobody holds.
LEMMA UnusedGone ==
  ASSUME UnitIInv, UNCHANGED work, NEW u, Looked(u), NEW c \in DOMAIN u.heap, ~InUse(u.heap[c]),
         Leaves(u, {c}), Leave(delete_aino(u, c)), UNCHANGED <<locks, recounted>>
  PROVE  UnitIInv'
<1>1. PICK w : w = delete_aino(u, c)
  OBVIOUS
<1>2. Sound(u, {})
  BY DEF Looked
<1>3. Deletes(u, w, c)
  BY ONLY <1>1, <1>2, Leaves(u, {c}), Deleted
<1>4. u.a_uniq <= work.ainos
  BY <1>1, <1>3 DEF Leave, Deletes
<1>5. Counted(u, locks, recounted) /\ u.a_uniq <= MaxAinos
  BY <1>4, LookedCounts
<1> QED BY <1>2, <1>5, UnusedDeleted

\* A file is opened, new or not.
LEMMA Finds ==
  ASSUME UnitIInv, UNCHANGED work, NEW f, Search(unit, f), NEW name, NEW create \in 0 .. 2,
         NEW h \in Handles, NEW opens \in BOOLEAN, do_find(f, name, create, h, opens)
  PROVE  UnitIInv'
<1> DEFINE a == f.u.heap[f.at]
           new == AddChild(f.u, f.at, name, FALSE)
           made == f.err = "absent"
           g == IF made THEN new ELSE f
           no == \/ f.at = NoAino
                 \/ made /\ create = 0
                 \/ ~made /\ (a.dir \/ a.elock \/ (create = 2 /\ a.shlock > 0))
<1>1. Looked(f.u) /\ h \in FreeHandles
  BY DEF Search, Looked, do_find
<1>2. CASE no
  BY <1>1, <1>2, Refused DEF do_find
<1>3. CASE ~no
  <2>1. f.at \in DOMAIN f.u.heap /\ (made => a.dir)
    BY <1>3 DEF Search
  <2>2. made => /\ Looked(g.u) /\ g.at \in DOMAIN g.u.heap
                /\ Leaves(g.u, {g.at}) /\ ~InUse(g.u.heap[g.at])
    <3>1. SUFFICES ASSUME made
                   PROVE  /\ Looked(g.u) /\ g.at \in DOMAIN g.u.heap
                          /\ Leaves(g.u, {g.at}) /\ ~InUse(g.u.heap[g.at])
      OBVIOUS
    <3>2. PICK isdir \in BOOLEAN : isdir = FALSE
      OBVIOUS
    <3>3. g = AddChild(f.u, f.at, name, isdir)
      BY <3>1, <3>2
    <3>4. f.u.heap[f.at].dir
      BY <2>1, <3>1
    <3> HIDE DEF g
    <3> QED BY <1>1, <2>1, <3>3, <3>4, ChildMade
  <2>3. ~made => g = f
    OBVIOUS
  <2>4. IF ~opens THEN Refuse(IF made THEN delete_aino(g.u, g.at) ELSE g.u)
        ELSE /\ Leave(Hold(SetKey(g.u, h, g.at, create = 2), g.at, create = 2))
             /\ UNCHANGED <<locks, recounted>>
    BY <1>3 DEF do_find
  <2>5. Looked(g.u) /\ g.at \in DOMAIN g.u.heap
    BY <1>1, <2>1, <2>2, <2>3
  <2>6. CASE ~opens /\ ~made
    <3>1. Refuse(g.u)
      BY <2>4, <2>6
    <3> HIDE DEF g
    <3> QED BY <2>5, <3>1, Refused
  <2>7. CASE ~opens /\ made
    <3> HIDE DEF g
    <3>1. Refuse(delete_aino(g.u, g.at)) /\ Leaves(g.u, {g.at}) /\ ~InUse(g.u.heap[g.at])
      BY <2>2, <2>4, <2>7
    <3>2. Leave(delete_aino(g.u, g.at)) /\ UNCHANGED <<locks, recounted>>
      BY <3>1 DEF Refuse
    <3>3. PICK u, c : u = g.u /\ c = g.at
      OBVIOUS
    <3> HIDE DEF made
    <3>4. /\ Looked(u) /\ c \in DOMAIN u.heap /\ Leaves(u, {c}) /\ ~InUse(u.heap[c])
          /\ Leave(delete_aino(u, c))
      BY <2>5, <3>1, <3>2, <3>3
    <3> QED BY <3>2, <3>4, UnusedGone
  <2>8. CASE opens
    <3>1. PICK excl \in BOOLEAN : excl <=> create = 2
      OBVIOUS
    <3>2. ~g.u.heap[g.at].elock /\ (excl => g.u.heap[g.at].shlock = 0)
      <4>1. CASE made
        <5>1. ~InUse(g.u.heap[g.at]) /\ Looked(g.u) /\ g.at \in DOMAIN g.u.heap
          BY <2>2, <4>1
        <5> HIDE DEF g, made
        <5>2. g.u.heap[g.at].shlock \in Nat
          BY <5>1 DEF Looked, Sound, Shape, IsAino
        <5> QED BY <5>1, <5>2 DEF InUse
      <4>2. CASE ~made
        <5>1. ~a.elock /\ ~(create = 2 /\ a.shlock > 0)
          BY <1>3, <4>2
        <5>2. a.shlock \in Nat
          BY <1>1, <2>1 DEF Looked, Sound, Shape, IsAino
        <5>3. ~a.elock /\ (excl => a.shlock = 0)
          BY <3>1, <5>1, <5>2
        <5> QED BY <2>3, <4>2, <5>3
      <4> QED BY <4>1, <4>2
    <3>3. /\ Leave(Hold(SetKey(g.u, h, g.at, create = 2), g.at, create = 2))
          /\ UNCHANGED <<locks, recounted>>
      BY <2>4, <2>8
    <3>4. excl = (create = 2)
      BY <3>1
    <3>5. Leave(Hold(SetKey(g.u, h, g.at, excl), g.at, excl))
      BY <3>3, <3>4
    <3>6. PICK u, c : u = g.u /\ c = g.at
      OBVIOUS
    <3> HIDE DEF g, made
    <3>7. /\ Looked(u) /\ c \in DOMAIN u.heap /\ ~u.heap[c].elock /\ (excl => u.heap[c].shlock = 0)
          /\ Leave(Hold(SetKey(u, h, c, excl), c, excl))
      BY <2>5, <3>2, <3>5, <3>6
    <3> QED BY <1>1, <3>3, <3>7, Opens
  <2> QED BY <2>6, <2>7, <2>8
<1> QED BY <1>2, <1>3

\* A handle closed.
LEMMA Ends ==
  ASSUME UnitIInv, UNCHANGED work, NEW h \in Handles, action_end(h)
  PROVE  UnitIInv'
<1>1. PICK c : c = unit.keys[h].aino
  OBVIOUS
<1>2. PICK x, v : x = Release(unit, c) /\ v = [x EXCEPT !.keys[h] = NoKey]
  OBVIOUS
<1>3. /\ Leave(v) /\ UNCHANGED <<locks, recounted>> /\ c # NoAino
  BY <1>1, <1>2 DEF action_end, Open, FreeHandles
<1>4. Sound(unit, {}) /\ Counted(unit, locks, recounted) /\ unit.a_uniq <= MaxAinos
  BY ItselfLooked, LookedCounts
<1>5. c \in DOMAIN unit.heap /\ KeysOn(unit, c) # {}
  BY <1>1, <1>3, <1>4 DEF Counted, KeysOn
<1>6. InUse(unit.heap[c])
  BY <1>4, <1>5, HoldersCounted
<1>7. Sound(x, {}) /\ x.a_uniq = unit.a_uniq
  BY <1>2, <1>4, <1>5, <1>6, Released
<1>8. v.a_uniq = x.a_uniq
  BY <1>2, <1>7 DEF Sound, Shape, IsUnit
<1>9. Sound(v, {}) /\ Counted(v, locks, recounted)
  BY <1>1, <1>2, <1>3, <1>4, <1>7, <1>8, HandleClosed
<1> QED BY <1>3, <1>9, PacketEnds

\* ACTION_CHANGE_MODE.
LEMMA ModeSet ==
  ASSUME UnitIInv, UNCHANGED work, NEW uniq, NEW excl \in BOOLEAN, action_change_mode(uniq, excl)
  PROVE  UnitIInv'
<1>1. PICK f : f = lookup_aino(unit, uniq)
  OBVIOUS
<1>2. LooksUp(unit, f, uniq) /\ Looked(f.u) /\ (f.at # NoAino => f.at \in DOMAIN f.u.heap)
      /\ f.u.a_uniq <= work.ainos
  BY <1>1, NamedLooked
<1> DEFINE no == f.at = NoAino \/ (excl /\ f.u.heap[f.at].shlock > 1)
<1>3. CASE no
  BY <1>1, <1>2, <1>3, Refused DEF action_change_mode
<1>4. CASE ~no
  <2>1. PICK u, c : u = f.u /\ c = f.at
    OBVIOUS
  <2>2. PICK v : v = de_recycle_aino([u EXCEPT !.heap[c].elock = excl,
                                               !.heap[c].shlock = IF excl THEN 0 ELSE @ + 1], c)
    OBVIOUS
  <2>3. c \in DOMAIN u.heap /\ u.heap[c].uniq = uniq /\ Looked(u)
    BY <1>2, <1>4, <2>1 DEF LooksUp
  <2>4. PICK r2 : r2 = IF ~excl /\ ~u.heap[c].elock THEN recounted \cup {u.heap[c].uniq} ELSE recounted
    OBVIOUS
  <2>5. Leave(v) /\ recounted' = r2 /\ UNCHANGED locks
    BY <1>1, <1>4, <2>1, <2>2, <2>3, <2>4 DEF action_change_mode
  <2>6. Sound(u, {}) /\ Counted(u, locks, recounted) /\ u.a_uniq <= MaxAinos
    BY <1>2, <2>1, LookedCounts
  <2>7. locks[u.heap[c].uniq] > 0
    BY <2>3 DEF action_change_mode, Held
  <2>8. excl => ~ u.heap[c].shlock > 1
    BY <1>4, <2>1
  <2>9. v = de_recycle_aino(WithMode(u, c, excl), c)
    BY <2>2 DEF WithMode
  <2>10. Sound(v, {}) /\ Counted(v, locks, r2)
    BY ONLY <2>3, <2>4, <2>6, <2>7, <2>8, <2>9, excl \in BOOLEAN, ModeChanged
  <2> QED BY <2>5, <2>10, PacketEnds
<1> QED BY <1>3, <1>4

\* ACTION_CREATE_DIR.
LEMMA CreatesDir ==
  ASSUME UnitIInv, UNCHANGED work, NEW f, Search(unit, f), NEW name, NEW mkdir \in BOOLEAN,
         action_create_dir(f, name, mkdir)
  PROVE  UnitIInv'
<1> DEFINE no == f.err # "absent" \/ f.at = NoAino
<1>1. Looked(f.u)
  BY DEF Search, Looked
<1>2. CASE no
  BY <1>1, <1>2, Refused DEF action_create_dir
<1>3. CASE ~no
  <2>1. PICK isdir \in BOOLEAN, excl \in BOOLEAN : isdir = TRUE /\ excl = FALSE
    OBVIOUS
  <2>2. PICK g : g = AddChild(f.u, f.at, name, isdir)
    OBVIOUS
  <2>3. f.at \in DOMAIN f.u.heap /\ f.u.heap[f.at].dir
    BY <1>3 DEF Search
  <2>4. Looked(g.u) /\ Added(f.u, g.u, g.at, f.at, isdir) /\ g.at \in DOMAIN g.u.heap
        /\ ~InUse(g.u.heap[g.at])
    BY <1>1, <2>2, <2>3, ChildMade
  <2>5. CASE mkdir
    <3>1. /\ Leave(Hold(g.u, g.at, excl)) /\ Take(g.at) /\ UNCHANGED recounted
      BY <1>3, <2>1, <2>2, <2>5 DEF action_create_dir
    <3>2. PICK u, c : u = g.u /\ c = g.at
      OBVIOUS
    <3>3. u.heap[c].uniq = c /\ ~u.heap[c].elock
      BY <2>4, <3>2 DEF Added
    <3>4. Take(u.heap[c].uniq) /\ Leave(Hold(u, c, excl)) /\ c \in DOMAIN u.heap /\ Looked(u)
      BY <2>4, <3>1, <3>2, <3>3
    <3> QED BY <2>1, <3>1, <3>3, <3>4, LockGiven
  <2>6. CASE ~mkdir
    <3>1. Leave(g.u) /\ UNCHANGED <<locks, recounted>>
      BY <1>3, <2>1, <2>2, <2>6 DEF action_create_dir
    <3> QED BY <2>4, <3>1, LookedEnds
  <2> QED BY <2>5, <2>6
<1> QED BY <1>2, <1>3

\* ACTION_DELETE_OBJECT.
LEMMA DeletesObject ==
  ASSUME UnitIInv, UNCHANGED work, NEW f, Search(unit, f), action_delete_object(f)
  PROVE  UnitIInv'
<1> DEFINE path == Path(f.u)[f.at]
           no == f.err # "ok" \/ f.at = Root \/ InUse(f.u.heap[f.at]) \/ path \notin DOMAIN disk
                   \/ Below(path) # {}
<1>1. Looked(f.u)
  BY DEF Search, Looked
<1>2. CASE no
  BY <1>1, <1>2, Refused DEF action_delete_object
<1>3. CASE ~no
  <2>1. PICK u, c : u = f.u /\ c = f.at
    OBVIOUS
  <2>2. c \in DOMAIN u.heap /\ c # Root /\ ~InUse(u.heap[c]) /\ Looked(u)
    BY <1>1, <1>3, <2>1 DEF Search
  <2>3. /\ IF u.heap[c].child # <<>> THEN Leave(u) ELSE Leave(delete_aino(u, c))
        /\ UNCHANGED <<locks, recounted>>
    BY <1>3, <2>1 DEF action_delete_object
  <2>4. CASE u.heap[c].child # <<>>
    BY <2>2, <2>3, <2>4, LookedEnds
  <2>5. CASE u.heap[c].child = <<>>
    <3>1. Range(u.heap[c].child) = {}
      <4>1. Range(<<>>) = {}
        BY DEF Range
      <4> QED BY <2>5, <4>1
    <3>2. \A d \in DOMAIN u.heap \ {Root} : d \in Range(u.heap[u.heap[d].parent].child)
      BY <2>2 DEF Looked, Sound, Tree
    <3>3. Leaves(u, {c})
      BY <2>2, <3>1, <3>2 DEF Leaves
    <3> QED BY <2>2, <2>3, <2>5, <3>3, UnusedGone
  <2> QED BY <2>4, <2>5
<1> QED BY <1>2, <1>3

\* ACTION_EXAMINE_NEXT that begins a scan.
LEMMA ExaminesFirst ==
  ASSUME UnitIInv, UNCHANGED work, NEW lock, NEW listing \in Orders, action_examine_first(lock, listing)
  PROVE  UnitIInv'
<1>1. PICK f : f = LookupOrRoot(unit, lock)
  OBVIOUS
<1>2. Search(unit, f) /\ f.at \in DOMAIN f.u.heap
  BY <1>1, BaseLookedUp DEF UnitIInv
<1>3. f.u.heap[f.at].dir /\ Refuse(StartScan(f.u, f.at, listing))
  BY <1>1 DEF action_examine_first
<1>4. PICK u, dir, z : u = f.u /\ dir = f.at /\ z = StartScan(u, dir, listing)
  OBVIOUS
<1>5. Sound(u, {}) /\ Keeps(unit, u) /\ dir \in DOMAIN u.heap /\ u.heap[dir].dir /\ Refuse(z)
  BY <1>2, <1>3, <1>4 DEF Search
<1>6. Len(listing) \in Nat
  <2>1. PICK n \in 0 .. Cardinality(Names) : listing \in [1 .. n -> Names]
    BY DEF Orders
  <2>2. Cardinality(Names) \in Nat
    BY Bounds, FS_CardinalityType
  <2> QED BY <2>1, <2>2
<1>7. Sound(z, {}) /\ Keeps(u, z)
  BY ONLY <1>4, <1>5, <1>6, ScanStarted
<1>8. Looked(z)
  BY <1>5, <1>7, KeepsOn DEF UnitIInv, Looked
<1> QED BY <1>5, <1>8, Refused

\* ACTION_EXAMINE_NEXT that goes on with one.
LEMMA ExaminesNext ==
  ASSUME UnitIInv, UNCHANGED work, NEW lock, NEW i, action_examine_next(lock, i)
  PROVE  UnitIInv'
<1> DEFINE but == {}
<1>1. PICK f : f = LookupOrRoot(unit, lock)
  OBVIOUS
<1>2. Search(unit, f)
  BY <1>1, BaseLookedUp DEF UnitIInv
<1>3. PICK u, v : u = f.u /\ v = do_examine(u, i)
  OBVIOUS
<1>4. Sound(u, but) /\ Keeps(unit, u) /\ Refuse(v)
  BY <1>1, <1>2, <1>3 DEF Search, action_examine_next
<1>5. Sound(v, but) /\ Keeps(u, v)
  BY ONLY <1>3, <1>4, Examined
<1>6. Looked(v)
  BY <1>4, <1>5, KeepsOn DEF UnitIInv, Looked
<1> QED BY <1>4, <1>6, Refused

\* A rename makes no a_inode beyond the new one.
LEMMA RenamedUniq ==
  ASSUME NEW u, NEW a1 \in DOMAIN u.heap, NEW a2 \in DOMAIN u.heap, Sound(u, {}), a1 # a2,
         NEW v, v = delete_aino(TakePlace(u, a1, a2), a1),
         NEW kept \in BOOLEAN, NEW w, w = IF kept THEN de_recycle_aino(v, a2) ELSE v
  PROVE  w.a_uniq = u.a_uniq
<1> DEFINE one == Without(u.lru, {a1})
           but == {}
<1>1. Sound(u, but)
  OBVIOUS
<1>2. Places(u, v, a1, a2, one)
  BY ONLY <1>1, a1 # a2, a1 \in DOMAIN u.heap, a2 \in DOMAIN u.heap,
          v = delete_aino(TakePlace(u, a1, a2), a1), PlaceTaken
<1>3. v.a_uniq = u.a_uniq
  BY <1>2 DEF Places
<1>4. CASE kept
  <2>1. w = de_recycle_aino(v, a2)
    BY <1>4
  <2>2. Places(u, w, a1, a2, Without(one, {a2}))
    BY ONLY <1>2, <2>1, PlaceKept
  <2> QED BY <2>2 DEF Places
<1> QED BY <1>3, <1>4

\* The host renames.
LEMMA HostRenamed ==
  ASSUME UnitIInv, UNCHANGED work, NEW u, Looked(u), NEW a1 \in DOMAIN u.heap, NEW a2 \in DOMAIN u.heap,
         Newcomer(u, a1, a2), ~InUse(u.heap[a2]), NEW lost \in SUBSET KeysOn(u, a1),
         NEW having \in BOOLEAN, having => KeysOn(u, a1) # {}, RenameOnHost(u, a1, a2, lost, having)
  PROVE  UnitIInv'
<1>1. PICK x : x = CloseKeys(u, lost)
  OBVIOUS
<1>2. PICK v : v = delete_aino(TakePlace(x, a1, a2), a1)
  OBVIOUS
<1>3. PICK kept \in BOOLEAN : kept <=> InUse(u.heap[a1]) \/ having
  OBVIOUS
<1>4. PICK w : w = IF kept THEN de_recycle_aino(v, a2) ELSE v
  OBVIOUS
<1>5. w = IF InUse(u.heap[a1]) \/ having THEN de_recycle_aino(v, a2) ELSE v
  BY <1>3, <1>4
<1>6. /\ Leave(w) /\ UNCHANGED locks
      /\ recounted' = IF lost = {} THEN recounted ELSE recounted \cup {u.heap[a1].uniq}
  BY <1>1, <1>2, <1>5 DEF RenameOnHost, Lose
<1>7. Sound(x, {}) /\ x.heap = u.heap /\ x.a_uniq = u.a_uniq /\ x.aino_hash = u.aino_hash
  <2> DEFINE but == {}
  <2>1. Sound(u, but)
    BY DEF Looked
  <2>2. Sound(x, but) /\ SameButKeys(u, x, Lost(u, lost))
    BY ONLY <1>1, <2>1, KeysClosed
  <2> QED BY <2>2 DEF SameButKeys
<1>8. a1 \in DOMAIN x.heap /\ a2 \in DOMAIN x.heap /\ a1 # a2 /\ ~InUse(x.heap[a2])
      /\ Newcomer(x, a1, a2)
  BY <1>7 DEF Newcomer
<1>9. w.a_uniq = x.a_uniq
  BY ONLY <1>2, <1>4, <1>7, <1>8, kept \in BOOLEAN, RenamedUniq
<1>10. u.a_uniq <= work.ainos
  BY <1>6, <1>7, <1>9 DEF Leave
<1>11. Sound(u, {}) /\ Counted(u, locks, recounted) /\ u.a_uniq <= MaxAinos
  BY <1>10, LookedCounts
<1>12. Counted(x, locks, recounted')
  BY ONLY <1>1, <1>6, <1>11, a1 \in DOMAIN u.heap, lost \in SUBSET KeysOn(u, a1), KeysLost
<1>13. w = IF InUse(x.heap[a1]) THEN de_recycle_aino(v, a2) ELSE v
  <2>1. having => InUse(u.heap[a1])
    BY <1>11, HoldersCounted
  <2> QED BY <1>5, <1>7, <2>1
<1>14. x.a_uniq <= MaxAinos
  BY <1>7, <1>11
<1>15. Sound(w, {}) /\ Counted(w, locks, recounted')
  BY ONLY <1>2, <1>7, <1>8, <1>12, <1>13, <1>14, Renamed
<1>16. Counted(w, locks', recounted')
  BY <1>6, <1>15
<1> QED BY ONLY <1>6, <1>15, <1>16, UnitIInv, UNCHANGED work, PacketEnds

\* It does not: the new a_inode goes.
LEMMA HostRefused ==
  ASSUME UnitIInv, UNCHANGED work, NEW u, Looked(u), NEW a1 \in DOMAIN u.heap, NEW a2 \in DOMAIN u.heap,
         Leaves(u, {a2}), ~InUse(u.heap[a2]), NEW lost \in SUBSET KeysOn(u, a1),
         RenameFails(u, a1, a2, lost)
  PROVE  UnitIInv'
<1> DEFINE but == {}
<1>1. PICK x : x = CloseKeys(u, lost)
  OBVIOUS
<1>2. PICK w : w = delete_aino(x, a2)
  OBVIOUS
<1>3. /\ Leave(w) /\ UNCHANGED locks
      /\ recounted' = IF lost = {} THEN recounted ELSE recounted \cup {u.heap[a1].uniq}
  BY <1>1, <1>2 DEF RenameFails, Lose
<1>4. Sound(x, but) /\ x.heap = u.heap /\ x.a_uniq = u.a_uniq
  <2>1. Sound(u, but)
    BY DEF Looked
  <2>2. Sound(x, but) /\ SameButKeys(u, x, Lost(u, lost))
    BY ONLY <1>1, <2>1, KeysClosed
  <2> QED BY <2>2 DEF SameButKeys
<1>5. Leaves(x, {a2}) /\ a2 \in DOMAIN x.heap /\ ~InUse(x.heap[a2])
  BY <1>4 DEF Leaves
<1>6. Deletes(x, w, a2)
  BY ONLY <1>2, <1>4, <1>5, Deleted
<1>7. u.a_uniq <= work.ainos
  BY <1>3, <1>4, <1>6 DEF Leave, Deletes
<1>8. Sound(u, {}) /\ Counted(u, locks, recounted) /\ u.a_uniq <= MaxAinos
  BY <1>7, LookedCounts
<1>9. Counted(x, locks, recounted')
  BY ONLY <1>1, <1>3, <1>8, a1 \in DOMAIN u.heap, lost \in SUBSET KeysOn(u, a1), KeysLost
<1>10. PICK r : r = recounted'
  OBVIOUS
<1>11. Counted(x, locks, r) /\ x.a_uniq <= MaxAinos /\ Sound(x, {}) /\ Leave(delete_aino(x, a2))
  BY <1>2, <1>3, <1>4, <1>8, <1>9, <1>10
<1> QED BY <1>3, <1>5, <1>10, <1>11, UnusedDeleted

\* A unit that says what it did.
LEMMA MarkRefused ==
  ASSUME UnitIInv, UNCHANGED work, NEW u, Looked(u), NEW text, Refuse([u EXCEPT !.broken = text])
  PROVE  UnitIInv'
<1> DEFINE but == {}
<1>1. PICK v : v = [u EXCEPT !.broken = text]
  OBVIOUS
<1>2. Sound(u, but) /\ Keeps(unit, u)
  BY DEF Looked
<1>3. Sound(v, but) /\ Marked(u, v)
  BY ONLY <1>1, <1>2, MarkedIs
<1>4. Keeps(u, v)
  BY ONLY <1>2, <1>3, MarkedKeeps
<1>5. Looked(v)
  BY <1>2, <1>3, <1>4, KeepsOn DEF Looked, UnitIInv
<1> QED BY <1>1, <1>5, Refused

\* ACTION_RENAME_OBJECT, once the new a_inode is made ...
LEMMA RenamesInto ==
  ASSUME UnitIInv, UNCHANGED work, NEW f2, Looked(f2.u), NEW a1 \in DOMAIN f2.u.heap, a1 # Root,
         NEW dir \in DOMAIN f2.u.heap, dir # a1, f2.u.heap[dir].dir, NEW name,
         NEW g, g = AddChild(f2.u, dir, name, f2.u.heap[a1].dir), RenameInto(f2, a1, g)
  PROVE  UnitIInv'
<1>1. PICK isdir \in BOOLEAN : isdir = f2.u.heap[a1].dir
  BY DEF Looked, Sound, Shape, IsAino
<1>2. /\ Looked(g.u) /\ Added(f2.u, g.u, g.at, dir, isdir) /\ g.at \in DOMAIN g.u.heap
      /\ Leaves(g.u, {g.at}) /\ ~InUse(g.u.heap[g.at]) /\ g.at # Root
  BY <1>1, ChildMade
<1>3. PICK u, a2 : u = g.u /\ a2 = g.at
  OBVIOUS
<1>4. CASE a1 \notin DOMAIN g.u.heap
  <2>1. PICK text : text = "renaming a freed file"
    OBVIOUS
  <2>2. Refuse([f2.u EXCEPT !.broken = text])
    BY <1>4, <2>1, Zenon DEF RenameInto
  <2> QED BY <2>2, MarkRefused
<1>5. CASE a1 \in DOMAIN g.u.heap
  <2> DEFINE having == {h \in Handles : g.u.keys[h].aino = a1}
  <2>1. \/ RenameOnHost(u, a1, a2, {}, FALSE)
        \/ \E lost \in SUBSET having :
              \/ having # {} /\ RenameOnHost(u, a1, a2, lost, TRUE)
              \/ RenameFails(u, a1, a2, lost)
    BY <1>3, <1>5, Zenon DEF RenameInto
  <2>2. having = KeysOn(u, a1)
    BY <1>3 DEF KeysOn
  <2>3. /\ Looked(u) /\ a1 \in DOMAIN u.heap /\ a2 \in DOMAIN u.heap
        /\ Leaves(u, {a2}) /\ ~InUse(u.heap[a2])
    BY <1>2, <1>3, <1>5
  <2>4. Newcomer(u, a1, a2)
    <3>1. a1 # a2 /\ a2 # Root /\ u.heap[a2].parent # a1 /\ u.heap[a2].dir = isdir
      BY <1>2, <1>3 DEF Added
    <3>2. u.heap[a1].dir = isdir
      <4>1. a1 \in Nat /\ f2.u.a_uniq \in Nat /\ a1 <= f2.u.a_uniq
        BY DEF Looked, Sound, Shape
      <4>2. SameAino(f2.u.heap[a1], u.heap[a1])
        <5>1. Keeps(f2.u, u)
          BY <1>2, <1>3 DEF Added
        <5>2. ~ a1 > f2.u.a_uniq
          BY ONLY <4>1
        <5> QED BY ONLY <2>3, <5>1, <5>2 DEF Keeps
      <4> QED BY <1>1, <4>2 DEF SameAino
    <3>3. \A d \in DOMAIN u.heap \ {Root} : u.heap[d].parent # a2
      BY <1>2, <1>3 DEF Added
    <3>4. \A h \in DOMAIN u.aino_hash : u.aino_hash[h] # a2
      BY <1>2, <1>3 DEF Added
    <3> QED BY <3>1, <3>2, <3>3, <3>4 DEF Newcomer
  <2> HIDE DEF having
  <2>5. CASE RenameOnHost(u, a1, a2, {}, FALSE)
    <3>1. PICK lost \in SUBSET KeysOn(u, a1), some \in BOOLEAN : lost = {} /\ some = FALSE
      OBVIOUS
    <3>2. RenameOnHost(u, a1, a2, lost, some) /\ (some => KeysOn(u, a1) # {})
      BY <2>5, <3>1
    <3> QED BY <2>3, <2>4, <3>2, HostRenamed
  <2>6. ASSUME NEW lost \in SUBSET having, having # {}, RenameOnHost(u, a1, a2, lost, TRUE)
        PROVE  UnitIInv'
    <3>1. PICK some \in BOOLEAN : some = TRUE
      OBVIOUS
    <3>2. RenameOnHost(u, a1, a2, lost, some) /\ (some => KeysOn(u, a1) # {})
          /\ lost \in SUBSET KeysOn(u, a1)
      BY <2>2, <2>6, <3>1
    <3> QED BY <2>3, <2>4, <3>2, HostRenamed
  <2>7. ASSUME NEW lost \in SUBSET having, RenameFails(u, a1, a2, lost)
        PROVE  UnitIInv'
    <3>1. lost \in SUBSET KeysOn(u, a1)
      BY <2>2
    <3> QED BY <2>3, <2>7, <3>1, HostRefused
  <2> QED BY <2>1, <2>5, <2>6, <2>7
<1> QED BY <1>4, <1>5

\* ... once the new name is looked up ...
LEMMA RenamesTo ==
  ASSUME UnitIInv, UNCHANGED work, NEW f2, Search(unit, f2), NEW a1, a1 # Root, a1 # NoAino,
         NEW name, RenameTo(a1, f2, name)
  PROVE  UnitIInv'
<1> DEFINE same == f2.at = a1
           old == f2.u.heap[a1]
           dir == IF same THEN old.parent ELSE f2.at
           no == (same /\ name = old.name) \/ (~same /\ (f2.at = NoAino \/ f2.err # "absent"))
<1>1. Looked(f2.u)
  BY DEF Search, Looked
<1>2. CASE no
  BY <1>1, <1>2, Refused DEF RenameTo
<1>3. CASE ~no /\ a1 \notin DOMAIN f2.u.heap
  <2>1. PICK text : text = "renaming a freed file"
    OBVIOUS
  <2>2. Refuse([f2.u EXCEPT !.broken = text])
    BY <1>3, <2>1, Zenon DEF RenameTo
  <2> QED BY <1>1, <2>2, MarkRefused
<1>4. CASE ~no /\ a1 \in DOMAIN f2.u.heap
  <2>1. dir \in DOMAIN f2.u.heap /\ dir # a1 /\ f2.u.heap[dir].dir
    <3>1. CASE same
      <4>1. old.parent \in DOMAIN f2.u.heap \ {a1} /\ f2.u.heap[old.parent].dir
        BY <1>1, <1>4 DEF Looked, Sound, Tree
      <4> QED BY <3>1, <4>1
    <3>2. CASE ~same
      <4>1. f2.at \in DOMAIN f2.u.heap /\ f2.u.heap[f2.at].dir
        BY <1>4, <3>2 DEF Search
      <4> QED BY <3>2, <4>1
    <3> QED BY <3>1, <3>2
  <2>2. RenameInto(f2, a1, AddChild(f2.u, dir, name, old.dir))
    BY <1>4, Zenon DEF RenameTo
  <2> HIDE DEF dir
  <2>3. PICK g : g = AddChild(f2.u, dir, name, f2.u.heap[a1].dir)
    OBVIOUS
  <2>4. RenameInto(f2, a1, g)
    BY <2>2, <2>3
  <2> QED BY <1>1, <1>4, <2>1, <2>3, <2>4, RenamesInto
<1> QED BY <1>2, <1>3, <1>4

\* ... and from the beginning.
LEMMA Renames ==
  ASSUME UnitIInv, UNCHANGED work, NEW f1, Search(unit, f1), NEW lock2, NEW rel2 \in work.rels,
         action_rename_object(f1, lock2, rel2)
  PROVE  UnitIInv'
<1> DEFINE writing == \E h \in Handles : unit.keys[h].aino = f1.at /\ unit.keys[h].output
           no == f1.err # "ok" \/ f1.at = Root \/ writing
<1>1. Looked(f1.u)
  BY DEF Search, Looked
<1>2. CASE no
  BY <1>1, <1>2, Refused DEF action_rename_object
<1>3. CASE ~no
  <2>1. PICK f2 : f2 = find_aino(f1.u, lock2, rel2)
    OBVIOUS
  <2>2. rel2 \in Seq(Names)
    BY Bounds DEF UnitIInv
  <2>3. PICK u : u = f1.u
    OBVIOUS
  <2>4. Sound(u, {}) /\ Keeps(unit, u) /\ Sound(unit, {})
    BY <1>1, <2>3 DEF Looked, UnitIInv
  <2>5. Search(u, f2)
    BY ONLY <2>1, <2>2, <2>3, <2>4, PacketLookedUp
  <2>6. Search(unit, f2)
    BY ONLY <2>4, <2>5, SearchOn
  <2>7. f1.at # Root /\ f1.at # NoAino
    BY <1>1, <1>3 DEF Search, Looked, Sound, Shape, NoAino
  <2>8. RenameTo(f1.at, f2, Last(rel2))
    BY <1>3, <2>1 DEF action_rename_object
  <2> QED BY <2>6, <2>7, <2>8, RenamesTo
<1> QED BY <1>2, <1>3

-----------------------------------------------------------------------------
(* The invariant.                                                          *)

\* A new unit has nothing but its root.
LEMMA UnitInit ==
  ASSUME Init
  PROVE  UnitIInv
<1>1. /\ unit.heap = [c \in {Root} |-> NewAino(0, NoAino, "", TRUE)] /\ unit.lru = <<>>
      /\ unit.total_locked_ainos = 0 /\ unit.aino_hash = [h \in 0 .. HashSize - 1 |-> NoAino]
      /\ unit.keys = [h \in Handles |-> NoKey] /\ unit.a_uniq = 0
      /\ unit = [heap |-> unit.heap, lru |-> unit.lru, total_locked_ainos |-> unit.total_locked_ainos,
                 aino_hash |-> unit.aino_hash, exkeys |-> unit.exkeys, keys |-> unit.keys,
                 a_uniq |-> unit.a_uniq, broken |-> unit.broken]
  <2>1. PICK heap : heap = [c \in {Root} |-> NewAino(0, NoAino, "", TRUE)]
    OBVIOUS
  <2>3. PICK hash, keys : /\ hash = [h \in 0 .. HashSize - 1 |-> NoAino]
                          /\ keys = [h \in Handles |-> NoKey]
    OBVIOUS
  <2>4. unit = [heap |-> heap, lru |-> <<>>, total_locked_ainos |-> 0,
                aino_hash |-> hash, exkeys |-> <<>>, keys |-> keys, a_uniq |-> 0, broken |-> "no"]
    BY <2>1, <2>3, Zenon DEF Init, Unit0
  <2>5. /\ unit.heap = heap /\ unit.lru = <<>> /\ unit.total_locked_ainos = 0
        /\ unit.aino_hash = hash /\ unit.keys = keys /\ unit.a_uniq = 0
        /\ unit = [heap |-> unit.heap, lru |-> unit.lru, total_locked_ainos |-> unit.total_locked_ainos,
                   aino_hash |-> unit.aino_hash, exkeys |-> unit.exkeys, keys |-> unit.keys,
                   a_uniq |-> unit.a_uniq, broken |-> unit.broken]
    BY ONLY <2>4
  <2> QED BY <2>1, <2>3, <2>5
<1>2. PICK text : text = ""
  OBVIOUS
<1>3. PICK a : a = NewAino(0, NoAino, text, TRUE)
  OBVIOUS
<1>4. /\ IsAino(a) /\ a.uniq = 0 /\ a.dir = TRUE /\ a.child = <<>> /\ a.shlock = 0 /\ a.elock = FALSE
  BY <1>3 DEF NewAino, IsAino
<1>5. DOMAIN unit.heap = {Root} /\ unit.heap[Root] = a /\ unit.heap = [c \in {Root} |-> a]
  BY <1>1, <1>2, <1>3
<1>6. unit.keys \in [Handles -> [aino : Int, output : BOOLEAN]]
      /\ \A h \in Handles : unit.keys[h].aino = NoAino
  <2>1. NoKey \in [aino : Int, output : BOOLEAN] /\ NoKey.aino = NoAino
    BY DEF NoKey, NoAino
  <2>2. unit.keys = [h \in Handles |-> NoKey]
    BY <1>1
  <2> QED BY <2>1, <2>2
<1>7. Shape(unit)
  <2>1. unit.heap = [c \in DOMAIN unit.heap |-> unit.heap[c]]
    BY <1>5
  <2>2. unit.aino_hash = [h \in DOMAIN unit.aino_hash |-> unit.aino_hash[h]]
    BY <1>1
  <2>3. IsUnit(unit)
    BY <1>1, <2>1, <2>2 DEF IsUnit
  <2>4. <<>> \in Seq(Int) /\ DOMAIN unit.heap \subseteq 0 .. 0
    BY <1>5 DEF Root
  <2>5. \A c \in DOMAIN unit.heap : IsAino(unit.heap[c])
    BY <1>4, <1>5
  <2>6. unit.lru \in Seq(Int) /\ unit.total_locked_ainos \in Int /\ unit.a_uniq \in Nat
        /\ DOMAIN unit.heap \subseteq 0 .. unit.a_uniq
    <3>1. unit.lru = <<>> /\ unit.total_locked_ainos = 0 /\ unit.a_uniq = 0
      BY <1>1
    <3> QED BY ONLY <2>4, <3>1
  <2> QED BY ONLY <1>6, <2>3, <2>5, <2>6 DEF Shape
<1>8. Range(<<>>) = {} /\ IsInjective(<<>>)
  BY DEF Range, IsInjective
<1>9. Tree(unit)
  <2>1. DOMAIN unit.heap = {Root} /\ unit.heap[Root].uniq = 0 /\ unit.heap[Root].dir
        /\ Range(unit.heap[Root].child) = {} /\ unit.a_uniq = 0
    BY <1>1, <1>4, <1>5, <1>8
  <2> QED BY ONLY <2>1 DEF Tree
<1>10. Listed(unit, {})
  BY <1>1, <1>4, <1>5, <1>8 DEF Listed, Idle
<1>11. Hashed(unit)
  BY <1>1 DEF Hashed
<1>12. \A c \in DOMAIN unit.heap : KeysOn(unit, c) = {}
  BY <1>5, <1>6 DEF KeysOn, NoAino, Root
<1>13. Counted(unit, locks, recounted)
  <2>1. MaxAinos \in Nat /\ 0 \in Uniqs
    BY Bounds DEF Uniqs
  <2>2. locks \in [Uniqs -> Nat] /\ recounted = {} /\ \A uniq \in Uniqs : locks[uniq] = 0
    BY DEF Init
  <2>3. Cardinality({}) = 0
    BY FS_EmptySet
  <2>4. \A c \in DOMAIN unit.heap :
          Agree(unit.heap[c], locks[unit.heap[c].uniq] + Cardinality(KeysOn(unit, c)), recounted)
    BY <1>4, <1>5, <1>12, <2>1, <2>2, <2>3 DEF Agree
  <2> QED BY <1>6, <2>2, <2>4 DEF Counted
<1>14. work \in Workloads /\ unit.a_uniq <= work.ainos
  <2>1. work \in Workloads
    BY DEF Init
  <2>2. work.ainos \in 0 .. MaxAinos /\ MaxAinos \in Nat
    BY <2>1, Bounds
  <2>3. unit.a_uniq = 0
    BY <1>1
  <2> QED BY ONLY <2>1, <2>2, <2>3
<1> QED BY <1>7, <1>9, <1>10, <1>11, <1>13, <1>14 DEF UnitIInv, Sound

\* A packet that names an object.
LEMMA ObjectHandled ==
  ASSUME UnitIInv, UNCHANGED work, NEW lock, NEW rel \in work.rels,
         NamedObject(find_aino(unit, lock, rel), lock, rel)
  PROVE  UnitIInv'
<1>1. PICK f : f = find_aino(unit, lock, rel)
  OBVIOUS
<1>2. rel \in Seq(Names) /\ Sound(unit, {})
  BY Bounds DEF UnitIInv
<1>3. Search(unit, f)
  BY ONLY <1>1, <1>2, PacketLookedUp
<1>4. NamedObject(f, lock, rel)
  BY <1>1
<1>5. CASE \E excl \in Modes("lock") : action_lock(f, excl)
  BY <1>3, <1>5, Locked DEF Modes
<1>6. CASE \E create \in 0 .. 2, h \in Handles, opens \in Modes("find") :
             do_find(f, Last(rel), create, h, opens)
  BY <1>3, <1>6, Finds DEF Modes
<1>7. CASE \E mkdir \in Modes("create dir") : action_create_dir(f, Last(rel), mkdir)
  <2>1. PICK kind : kind = "create dir"
    OBVIOUS
  <2>2. \E mkdir \in Modes(kind) : action_create_dir(f, Last(rel), mkdir)
    BY <1>7, <2>1
  <2> QED BY <1>3, <2>2, CreatesDir DEF Modes
<1>8. CASE action_delete_object(f)
  BY <1>3, <1>8, DeletesObject
<1>9. CASE \E rel2 \in work.rels \ {<<>>} : action_rename_object(f, NoLock, rel2)
  BY <1>3, <1>9, Renames
<1> QED BY <1>4, <1>5, <1>6, <1>7, <1>8, <1>9, Zenon DEF NamedObject

\* A lock.
LEMMA LockHandled ==
  ASSUME UnitIInv, UNCHANGED work, NEW uniq \in Uniqs, NamedLock(uniq)
  PROVE  UnitIInv'
<1>1. CASE action_free_lock(uniq)
  BY <1>1, LockFreed
<1>2. CASE action_dup_lock(uniq)
  BY <1>2, DupLocked DEF action_dup_lock
<1>3. CASE action_parent(uniq)
  BY <1>3, ParentLocked DEF action_parent
<1>4. CASE \E h \in Handles : action_fh_from_lock(uniq, h)
  BY <1>4, FromLock
<1>5. ASSUME NEW excl \in BOOLEAN, action_change_mode(uniq, excl)
      PROVE  UnitIInv'
  BY <1>5, ModeSet
<1>6. \A kind : Modes(kind) \subseteq BOOLEAN
  BY DEF Modes
<1> QED BY <1>1, <1>2, <1>3, <1>4, <1>5, <1>6, Zenon DEF NamedLock

\* A handle.
LEMMA HandleHandled ==
  ASSUME UnitIInv, UNCHANGED work, NEW h \in Handles, NamedHandle(h)
  PROVE  UnitIInv'
<1>1. CASE action_end(h)
  BY <1>1, Ends
<1>2. CASE action_parent_fh(h)
  BY <1>2, ParentLocked DEF action_parent_fh
<1>3. CASE action_lock_from_fh(h)
  BY <1>3, DupLocked DEF action_lock_from_fh
<1> QED BY <1>1, <1>2, <1>3, Zenon DEF NamedHandle

\* Every packet preserves the invariant.
LEMMA UnitStep ==
  ASSUME UnitIInv, [Next]_vars
  PROVE  UnitIInv'
<1>1. CASE UNCHANGED vars
  BY <1>1 DEF vars, UnitIInv
<1>2. CASE Next
  <2>1. UNCHANGED work
    BY <1>2 DEF Next
  <2>2. ASSUME NEW lock, NEW rel \in work.rels, NamedObject(find_aino(unit, lock, rel), lock, rel)
        PROVE  UnitIInv'
    BY <2>1, <2>2, ObjectHandled
  <2>3. ASSUME NEW uniq \in Uniqs, NamedLock(uniq)
        PROVE  UnitIInv'
    BY <2>1, <2>3, LockHandled
  <2>4. ASSUME NEW h \in Handles, NamedHandle(h)
        PROVE  UnitIInv'
    BY <2>1, <2>4, HandleHandled
  <2>5. ASSUME NEW lock, NEW listing \in Orders, action_examine_first(lock, listing)
        PROVE  UnitIInv'
    BY <2>1, <2>5, ExaminesFirst
  <2>6. ASSUME NEW lock, NEW i, action_examine_next(lock, i)
        PROVE  UnitIInv'
    BY <2>1, <2>6, ExaminesNext
  <2> QED BY <1>2, <2>2, <2>3, <2>4, <2>5, <2>6, Zenon DEF Next
<1> QED BY <1>1, <1>2

\* The list and the table are as sound as Sound says.
LEMMA UnitIsListed ==
  ASSUME UnitIInv
  PROVE  UnusedMayBeFreed
<1>1. Listed(unit, {}) /\ Hashed(unit)
  BY DEF UnitIInv, Sound
<1>2. Idle(unit) = {c \in DOMAIN unit.heap \ Dirs : ~InUse(unit.heap[c])}
  BY DEF Idle, Dirs
<1> QED BY <1>1, <1>2 DEF UnusedMayBeFreed, Listed, Hashed

\* The properties of the run follow.
LEMMA UnitIsCounted ==
  ASSUME UnitIInv
  PROVE  LocksAreCounted
<1>1. Sound(unit, {}) /\ Counted(unit, locks, recounted) /\ unit.a_uniq <= MaxAinos
  BY ItselfLooked, LookedCounts
<1>2. TypeOK
  <2>1. DOMAIN unit.heap \subseteq 0 .. unit.a_uniq /\ unit.a_uniq \in Nat /\ MaxAinos \in Nat
    BY <1>1, Bounds DEF Sound, Shape
  <2>2. DOMAIN unit.heap \subseteq 0 .. MaxAinos
    BY <1>1, <2>1
  <2>3. unit.total_locked_ainos \in Int
        /\ \A c \in DOMAIN unit.heap : unit.heap[c].shlock \in Nat /\ unit.heap[c].locked_children \in Nat
    BY <1>1 DEF Sound, Shape, IsAino
  <2> QED BY <1>1, <2>2, <2>3 DEF TypeOK, UnitIInv, Counted
<1>3. \A c \in DOMAIN unit.heap : c # NoAino
  BY <1>1 DEF Sound, Shape, NoAino
<1>4. ASSUME NEW uniq \in Uniqs, Held(uniq)
      PROVE  WithUniq(unit, uniq) # NoAino
  <2> DEFINE found == {c \in DOMAIN unit.heap : unit.heap[c].uniq = uniq}
  <2>1. found # {}
    BY <1>1, <1>4 DEF Counted, Held
  <2>2. WithUniq(unit, uniq) \in found
    BY <2>1 DEF WithUniq
  <2> QED BY <1>3, <2>2
<1>5. \A h \in Open : unit.keys[h].aino \in DOMAIN unit.heap
  BY <1>1 DEF Open, FreeHandles, Counted
<1>6. ASSUME NEW c \in DOMAIN unit.heap
      PROVE  LET a == unit.heap[c]
             IN  IF a.elock THEN a.shlock = 0 /\ Holders(c) <= 1
                 ELSE IF a.uniq \in recounted THEN a.shlock > Holders(c)
                 ELSE a.shlock = Holders(c)
  <2>1. {h \in Open : unit.keys[h].aino = c} = KeysOn(unit, c)
    BY <1>3 DEF Open, FreeHandles, KeysOn
  <2>2. Holders(c) = HoldersOf(unit, locks, c)
    BY <2>1 DEF Holders, HoldersOf
  <2>3. Agree(unit.heap[c], HoldersOf(unit, locks, c), recounted)
    BY <1>1, HoldersCounted
  <2> QED BY <2>2, <2>3 DEF Agree
<1> QED BY <1>2, <1>4, <1>5, <1>6, UnitIsListed DEF LocksAreCounted

\* So it holds for good.
LEMMA UnitInvariant == Spec => []UnitIInv
<1>1. Init => UnitIInv
  BY UnitInit
<1>2. UnitIInv /\ [Next]_vars => UnitIInv'
  BY UnitStep
<1> QED BY <1>1, <1>2, PTL DEF Spec

\* Whatever the packets do, the lock counts of an object say who holds it, and
\* nothing that is held is freed (src/src/filesys.c, shlock and elock).
THEOREM HoldersAreCounted == Spec => []LocksAreCounted
<1>1. UnitIInv => LocksAreCounted
  BY UnitIsCounted
<1> QED BY <1>1, UnitInvariant, PTL

\* The list of recycle_aino holds the unused files, each once, and the hash
\* table of lookup_aino names no freed a_inode.
THEOREM ListAndTableAreSound == Spec => []UnusedMayBeFreed
<1>1. UnitIInv => UnusedMayBeFreed
  BY UnitIsListed
<1> QED BY <1>1, UnitInvariant, PTL

=============================================================================
