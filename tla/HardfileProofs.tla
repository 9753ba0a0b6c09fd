--------------------------- MODULE HardfileProofs ---------------------------
(***************************************************************************)
(* For any requests, any sizes of the pipe and of the table, and any       *)
(* number of requests, resets and senders' calls: native calls are decoded *)
(* whole; a request is in one place at a time, the unit's pipe, its thread *)
(* or a reply, and nowhere once the Amiga owns it again; AbortIO waits for *)
(* what it aborts; the lives of a unit's threads do not overlap.           *)
(***************************************************************************)
EXTENDS Hardfile, FiniteSetTheorems, SequenceTheorems, TLAPS

-----------------------------------------------------------------------------
(* Native2Amiga: what is on its way is a sequence of whole calls.          *)

IoReq == [req : Requests, boot : Nat]
NativeCall == [kind : {"ReplyMsg"}, arg : IoReq] \cup [kind : {"Signal", "Notify"}, arg : Nat]
Entry == [of : NativeCall, part : 1 .. 3]
CallPC == {"idle", "lock", "write", "unlock"}
ServerPC == {"idle", "scan", "exit"}

CallTypes ==
    /\ native2amiga_pending \in Seq(Entry) /\ Len(native2amiga_pending) <= N2ASize
    /\ n2asem \in Senders \cup {None}
    /\ call \in [Senders -> [at : CallPC, left : Seq(Entry)]]
    /\ server \in [at : ServerPC, got : Seq(Entry)]
    /\ cut_short \in BOOLEAN

\* One sender writes at a time; what the others have to write is a whole call.
Turns ==
    \A s \in Senders :
       /\ call[s].at \in {"write", "unlock"} <=> n2asem = s
       /\ call[s].at \in {"idle", "unlock"} => call[s].left = <<>>
       /\ call[s].at = "lock" => \E c \in NativeCall : call[s].left = Entries(c)

Whole(q) == q # <<>> =>
    /\ q[1].part = 1
    /\ \A i \in 1 .. (Len(q) - 1) : Follows(q[i], q[i + 1])
    /\ q[Len(q)].part = Args(q[Len(q)].of.kind) + 1

\* What the server has decoded is the beginning of one call.
Decoded ==
    /\ Decoding => Len(server.got) <= Args(server.got[1].of.kind) + 1
    /\ server.at # "scan" => ~Decoding

\* A sender that has the lock but not asked yet is still writing.
Asked ==
    native2amiga_pending # <<>> =>
        \/ server.at = "scan" \/ uae_int_requested = 1 \/ cut_short
        \/ n2asem # None /\ call[n2asem].at = "write"

CallInv == CallTypes /\ Turns /\ Whole(Stream) /\ Decoded /\ Asked

Serving == server.got \o native2amiga_pending
Left == IF n2asem = None THEN <<>> ELSE call[n2asem].left

\* A call has two entries or three.
LEMMA EntryShape ==
  /\ \A e \in Entry : e.part \in 1 .. 3 /\ e.of \in NativeCall
  /\ \A k : Args(k) \in 1 .. 2
BY DEF Entry, Args

\* One more element is moved from the front of a sequence to the back of another.
LEMMA Moved ==
  ASSUME NEW S, NEW p \in Seq(S), NEW l \in Seq(S), l # <<>>
  PROVE  Append(p, Head(l)) \o Tail(l) = p \o l
<1>0. \A a \in Seq(S) : \A b \in Seq(S) :
        /\ a \o b \in Seq(S) /\ Len(a \o b) = Len(a) + Len(b)
        /\ \A i \in 1 .. Len(a) + Len(b) : (a \o b)[i] = IF i <= Len(a) THEN a[i] ELSE b[i - Len(a)]
  BY ConcatProperties
<1>1. /\ Head(l) \in S /\ Head(l) = l[1] /\ Tail(l) \in Seq(S) /\ Len(Tail(l)) = Len(l) - 1
      /\ \A i \in 1 .. Len(Tail(l)) : Tail(l)[i] = l[i + 1]
  BY HeadTailProperties
<1>2. Len(l) \in Nat
  OBVIOUS
<1> DEFINE h == <<Head(l)>>
<1>3. h \in Seq(S) /\ Len(h) = 1 /\ h[1] = l[1]
  BY <1>1
<1> HIDE DEF h
<1> DEFINE t == Tail(l)
<1>4. h \o t = l
  <2>1. t \in Seq(S) /\ Len(t) = Len(l) - 1 /\ \A i \in 1 .. Len(t) : t[i] = l[i + 1]
    BY <1>1
  <2> HIDE DEF t
  <2>2. /\ h \o t \in Seq(S) /\ Len(h \o t) = Len(h) + Len(t)
        /\ \A i \in 1 .. Len(h) + Len(t) : (h \o t)[i] = IF i <= Len(h) THEN h[i] ELSE t[i - Len(h)]
    BY ONLY <1>0, <1>3, <2>1, Zenon
  <2>3. Len(h) + Len(t) = Len(l)
    BY <1>2, <1>3, <2>1
  <2>4. ASSUME NEW i \in 1 .. Len(l) PROVE (h \o t)[i] = l[i]
    <3>1. (h \o t)[i] = IF i <= 1 THEN h[i] ELSE t[i - 1]
      BY <1>3, <2>2, <2>3
    <3>2. CASE i = 1
      BY <1>3, <3>1, <3>2
    <3>3. CASE i > 1
      <4>1. i - 1 \in 1 .. Len(t) /\ (i - 1) + 1 = i
        BY <1>2, <2>1, <3>3
      <4>2. t[i - 1] = l[(i - 1) + 1]
        BY <2>1, <4>1
      <4> QED BY <3>1, <3>3, <4>1, <4>2
    <3>4. i = 1 \/ i > 1
      BY <1>2
    <3> QED BY <3>2, <3>3, <3>4
  <2> QED BY <2>2, <2>3, <2>4, SeqEqual
<1>5. Append(p, Head(l)) = p \o h
  BY <1>1, AppendIsConcat DEF h
<1>6. (p \o h) \o Tail(l) = p \o (h \o Tail(l))
  <2>1. PICK u \in Seq(S) : u = Tail(l)
    BY <1>1
  <2>2. (p \o h) \o u = p \o (h \o u)
    BY ONLY <1>3, p \in Seq(S), ConcatAssociative
  <2> QED BY ONLY <2>1, <2>2
<1> QED BY <1>4, <1>5, <1>6 DEF t

\* What is appended to the second part is appended to the whole.
LEMMA AppendedBehind ==
  ASSUME NEW S, NEW g \in Seq(S), NEW p \in Seq(S), NEW x \in S
  PROVE  g \o Append(p, x) = Append(g \o p, x)
<1>1. Append(p, x) = p \o <<x>> /\ <<x>> \in Seq(S)
  BY AppendIsConcat
<1>2. g \o p \in Seq(S)
  OBVIOUS
<1>3. Append(g \o p, x) = (g \o p) \o <<x>>
  BY <1>2, AppendIsConcat
<1> QED BY <1>1, <1>3, ConcatAssociative

\* Whole calls behind whole calls are whole calls.
LEMMA WholeConcat ==
  ASSUME NEW p \in Seq(Entry), NEW q \in Seq(Entry), Whole(p), Whole(q)
  PROVE  Whole(p \o q)
<1>1. CASE p = <<>> \/ q = <<>>
  <2>1. p \o q = p \/ p \o q = q
    BY <1>1
  <2> QED BY <2>1
<1>2. CASE p # <<>> /\ q # <<>>
  <2> DEFINE r == p \o q
  <2>1. Len(p) \in Nat /\ Len(q) \in Nat /\ Len(p) >= 1 /\ Len(q) >= 1
    BY <1>2
  <2>2. /\ r \in Seq(Entry) /\ Len(r) = Len(p) + Len(q)
        /\ \A i \in 1 .. Len(p) : r[i] = p[i]
        /\ \A i \in 1 .. Len(q) : r[Len(p) + i] = q[i]
    BY <2>1
  <2> HIDE DEF r
  <2>3. r[1].part = 1
    BY <1>2, <2>1, <2>2 DEF Whole
  <2>4. r[Len(r)].part = Args(r[Len(r)].of.kind) + 1
    <3>1. r[Len(r)] = q[Len(q)]
      BY <2>1, <2>2
    <3> QED BY <1>2, <3>1 DEF Whole
  <2>5. ASSUME NEW i \in 1 .. (Len(r) - 1) PROVE Follows(r[i], r[i + 1])
    <3>1. CASE i < Len(p)
      <4>1. i \in 1 .. Len(p) - 1 /\ r[i] = p[i] /\ r[i + 1] = p[i + 1]
        BY <2>1, <2>2, <3>1
      <4> QED BY <1>2, <4>1 DEF Whole
    <3>2. CASE i = Len(p)
      <4>1. r[i] = p[Len(p)] /\ r[i + 1] = q[1]
        BY <2>1, <2>2, <3>2
      <4>2. r[i].part = Args(r[i].of.kind) + 1 /\ r[i + 1].part = 1
        BY <1>2, <4>1 DEF Whole
      <4>3. ~ (r[i].part <= Args(r[i].of.kind))
        BY <4>2, EntryShape
      <4> QED BY <4>2, <4>3 DEF Follows
    <3>3. CASE i > Len(p)
      <4>1. i - Len(p) \in 1 .. Len(q) - 1
        BY <2>1, <2>2, <3>3
      <4> DEFINE j == i - Len(p)
      <4>2. j \in 1 .. Len(q) /\ j + 1 \in 1 .. Len(q) /\ Len(p) + j = i /\ Len(p) + (j + 1) = i + 1
        BY <2>1, <4>1
      <4> HIDE DEF j
      <4>3. r[Len(p) + j] = q[j] /\ r[Len(p) + (j + 1)] = q[j + 1]
        BY <2>2, <4>2
      <4>4. j \in 1 .. Len(q) - 1
        BY <4>1 DEF j
      <4> QED BY <1>2, <4>2, <4>3, <4>4 DEF Whole
    <3> QED BY <2>1, <3>1, <3>2, <3>3
  <2> QED BY <2>3, <2>4, <2>5 DEF Whole, r
<1> QED BY <1>1, <1>2

\* What follows a complete call is whole calls again; its parts come in order.
LEMMA WholeRest ==
  ASSUME NEW g \in Seq(Entry), NEW q \in Seq(Entry), Whole(g \o q), g # <<>>,
         Len(g) <= Args(g[1].of.kind) + 1
  PROVE  /\ \A i \in 1 .. Len(g) : g[i].of = g[1].of /\ g[i].part = i
         /\ Len(g) = Args(g[1].of.kind) + 1 => Whole(q)
         /\ Len(g) < Args(g[1].of.kind) + 1 => /\ q # <<>>
                                               /\ q[1].of = g[1].of /\ q[1].part = Len(g) + 1
<1> DEFINE r == g \o q
           A == Args(g[1].of.kind)
<1>1. Len(g) \in Nat /\ Len(q) \in Nat /\ Len(g) >= 1
  OBVIOUS
<1>2. /\ r \in Seq(Entry) /\ Len(r) = Len(g) + Len(q)
      /\ \A i \in 1 .. Len(g) : r[i] = g[i]
      /\ \A i \in 1 .. Len(q) : r[Len(g) + i] = q[i]
  BY <1>1
<1>3. A \in 1 .. 2 /\ Len(g) <= A + 1
  BY EntryShape
<1> HIDE DEF r, A
<1>4. r # <<>> /\ r[1].part = 1 /\ r[1].of = g[1].of
  BY <1>1, <1>2 DEF Whole, r
<1>5. /\ \A i \in 1 .. (Len(r) - 1) : Follows(r[i], r[i + 1])
      /\ r[Len(r)].part = Args(r[Len(r)].of.kind) + 1
  BY <1>4 DEF Whole, r
<1>6. Len(r) > 1 /\ r[2].of = g[1].of /\ r[2].part = 2
  <2>1. Args(r[1].of.kind) = A
    BY <1>4 DEF A
  <2>2. Len(r) # 1
    BY <1>3, <1>4, <1>5, <2>1
  <2>3. Len(r) \in Nat /\ Len(r) >= 1
    BY <1>1, <1>2
  <2>0. \A n \in Nat : n >= 1 /\ n # 1 => n > 1 /\ 1 \in 1 .. (n - 1) /\ 1 + 1 = 2
    OBVIOUS
  <2>4. Len(r) > 1 /\ 1 \in 1 .. (Len(r) - 1) /\ 1 + 1 = 2
    BY ONLY <2>0, <2>2, <2>3, Zenon
  <2>5. Follows(r[1], r[1 + 1])
    BY ONLY <1>5, <2>4, Zenon
  <2>6. Follows(r[1], r[2])
    BY ONLY <2>4, <2>5, Zenon
  <2>7. r[2].of = r[1].of /\ r[2].part = r[1].part + 1
    BY <1>3, <1>4, <2>1, <2>6 DEF Follows
  <2> QED BY ONLY <1>4, <2>4, <2>7, 1 + 1 = 2
<1>7. A = 2 => Len(r) > 2 /\ r[3].of = g[1].of /\ r[3].part = 3
  <2> SUFFICES ASSUME A = 2 PROVE Len(r) > 2 /\ r[3].of = g[1].of /\ r[3].part = 3
    OBVIOUS
  <2>1. Args(r[2].of.kind) = 2
    BY <1>6 DEF A
  <2>2. Len(r) # 2
    BY <1>5, <1>6, <2>1
  <2>3. Len(r) \in Nat
    BY <1>1, <1>2
  <2>0. \A n \in Nat : n > 1 /\ n # 2 => n > 2 /\ 2 \in 1 .. (n - 1) /\ 2 + 1 = 3
    OBVIOUS
  <2>4. Len(r) > 2 /\ 2 \in 1 .. (Len(r) - 1) /\ 2 + 1 = 3
    BY ONLY <1>6, <2>0, <2>2, <2>3, Zenon
  <2>5. Follows(r[2], r[2 + 1])
    BY ONLY <1>5, <2>4, Zenon
  <2>6. Follows(r[2], r[3])
    BY ONLY <2>4, <2>5, Zenon
  <2>7. r[3].of = r[2].of /\ r[3].part = r[2].part + 1
    BY <1>6, <2>1, <2>6 DEF Follows
  <2> QED BY ONLY <1>6, <2>4, <2>7, 2 + 1 = 3
<1>8. \A i \in 1 .. Len(g) : g[i].of = g[1].of /\ g[i].part = i
  <2>1. \A i \in 1 .. Len(g) : i \in {1, 2} \/ (i = 3 /\ A = 2)
    BY <1>1, <1>3
  <2> QED BY <1>2, <1>4, <1>6, <1>7, <2>1
<1>9. Len(g) = A + 1 => Whole(q)
  <2> SUFFICES ASSUME Len(g) = A + 1, q # <<>> PROVE Whole(q)
    BY DEF Whole
  <2>1. Len(q) >= 1
    BY <1>1
  <2>2. q[1].part = 1
    <3>1. Len(g) \in 1 .. Len(r) - 1 /\ r[Len(g)] = g[Len(g)] /\ r[Len(g) + 1] = q[1]
      BY <1>1, <1>2, <2>1
    <3>2. g[Len(g)].of = g[1].of /\ g[Len(g)].part = A + 1
      BY <1>1, <1>8
    <3>3. ~ (g[Len(g)].part <= Args(g[Len(g)].of.kind))
      BY <1>3, <3>2 DEF A
    <3> QED BY <1>5, <3>1, <3>3 DEF Follows
  <2>3. q[Len(q)].part = Args(q[Len(q)].of.kind) + 1
    <3>1. r[Len(r)] = q[Len(q)]
      BY <1>1, <1>2, <2>1
    <3> QED BY <1>5, <3>1
  <2>4. ASSUME NEW i \in 1 .. (Len(q) - 1) PROVE Follows(q[i], q[i + 1])
    <3> DEFINE n == Len(g)
    <3>1. n \in Nat /\ Len(q) \in Nat /\ Len(r) = n + Len(q)
      BY <1>1, <1>2
    <3> HIDE DEF n
    <3>2. i \in 1 .. Len(q) /\ i + 1 \in 1 .. Len(q) /\ n + i \in 1 .. (Len(r) - 1) /\ n + (i + 1) = (n + i) + 1
      BY <3>1
    <3>3. r[n + i] = q[i] /\ r[n + (i + 1)] = q[i + 1]
      BY <1>2, <3>2 DEF n
    <3>4. Follows(r[n + i], r[(n + i) + 1])
      BY ONLY <1>5, <3>2, Zenon
    <3> QED BY ONLY <3>2, <3>3, <3>4, Zenon
  <2> QED BY <2>2, <2>3, <2>4 DEF Whole
<1>10. Len(g) < A + 1 => q # <<>> /\ q[1].of = g[1].of /\ q[1].part = Len(g) + 1
  <2> SUFFICES ASSUME Len(g) < A + 1 PROVE q # <<>> /\ q[1].of = g[1].of /\ q[1].part = Len(g) + 1
    OBVIOUS
  <2>1. Len(r) > Len(g) /\ r[Len(g) + 1].of = g[1].of /\ r[Len(g) + 1].part = Len(g) + 1
    BY <1>1, <1>3, <1>6, <1>7
  <2>2. Len(q) >= 1
    BY <1>1, <1>2, <2>1
  <2>3. r[Len(g) + 1] = q[1]
    BY <1>2, <2>2
  <2> QED BY <2>1, <2>2, <2>3
<1> QED BY <1>8, <1>9, <1>10 DEF A

\* The entries of a call are a whole call.
LEMMA WholeCall ==
  ASSUME NEW c \in NativeCall
  PROVE  /\ Entries(c) \in Seq(Entry) /\ Entries(c) # <<>> /\ Whole(Entries(c))
         /\ Entries(c)[1] = [of |-> c, part |-> 1]
<1> DEFINE n == Args(c.kind) + 1
<1>1. n \in 2 .. 3
  BY EntryShape
<1>2. /\ Entries(c) = [i \in 1 .. n |-> [of |-> c, part |-> i]]
  BY DEF Entries
<1>3. \A i \in 1 .. n : [of |-> c, part |-> i] \in Entry
  BY <1>1 DEF Entry
<1> HIDE DEF n
<1>4. Entries(c) \in Seq(Entry) /\ Len(Entries(c)) = n /\ \A i \in 1 .. n : Entries(c)[i] = [of |-> c, part |-> i]
  BY <1>1, <1>2, <1>3
<1>5. Entries(c) # <<>>
  BY <1>1, <1>4
<1>6. Args(c.kind) = n - 1
  BY EntryShape DEF n
<1>7. \A i \in 1 .. (n - 1) : Follows(Entries(c)[i], Entries(c)[i + 1])
  <2> SUFFICES ASSUME NEW i \in 1 .. (n - 1) PROVE Follows(Entries(c)[i], Entries(c)[i + 1])
    OBVIOUS
  <2>1. Entries(c)[i] = [of |-> c, part |-> i] /\ Entries(c)[i + 1] = [of |-> c, part |-> i + 1]
    BY <1>1, <1>4
  <2> QED BY <1>6, <2>1 DEF Follows
<1>8. Entries(c)[1].part = 1 /\ Entries(c)[n].part = n /\ Entries(c)[n].of = c
  BY <1>1, <1>4
<1>9. Entries(c)[Len(Entries(c))].part = Args(Entries(c)[Len(Entries(c))].of.kind) + 1
  BY <1>1, <1>4, <1>6, <1>8
<1> QED BY <1>1, <1>4, <1>5, <1>7, <1>8, <1>9 DEF Whole

\* What a sender, the interrupt and its server, and a reset between two of its
\* calls do.
Begin(s, c) ==
    /\ Idle(s) /\ BeginCall(s, c)
    /\ UNCHANGED <<native2amiga_pending, n2asem, requestVars, intreq, serverVars>>
Serve == Hsync \/ EnterServer \/ ReadEntry \/ NothingLeft \/ ExitServer \/ MakeCall
CallStep ==
    \/ \E s \in Senders : Send(s) \/ \E c \in NativeCall : Begin(s, c)
    \/ Serve
    \/ N2AReset /\ ~Decoding
    \/ UNCHANGED n2aVars

\* The parts of the stream and who writes them.
LEMMA StreamShape ==
  ASSUME CallTypes
  PROVE  /\ Serving \in Seq(Entry) /\ Left \in Seq(Entry) /\ Stream = Serving \o Left
         /\ server.got \in Seq(Entry) /\ native2amiga_pending \in Seq(Entry)
         /\ \A s \in Senders : call[s].left \in Seq(Entry) /\ call[s].at \in CallPC
         /\ server.at \in ServerPC
<1>1. /\ server.got \in Seq(Entry) /\ native2amiga_pending \in Seq(Entry) /\ server.at \in ServerPC
      /\ \A s \in Senders : call[s].left \in Seq(Entry) /\ call[s].at \in CallPC
  BY DEF CallTypes
<1>2. Left \in Seq(Entry)
  BY <1>1, N2AAssumption DEF Left, CallTypes
<1>3. Serving \in Seq(Entry)
  BY <1>1 DEF Serving
<1> QED BY <1>1, <1>2, <1>3 DEF Stream, Serving, Left

\* A sender begins a call: it is still to be written.
LEMMA BeginKeepsCalls ==
  ASSUME CallInv, NEW s \in Senders, NEW c \in NativeCall, Begin(s, c)
  PROVE  CallInv'
<1> USE DEF CallInv
<1> DEFINE e == Entries(c)
<1>0. e \in Seq(Entry)
  BY WholeCall
<1>1. /\ call' = [call EXCEPT ![s] = [at |-> "lock", left |-> e]]
      /\ UNCHANGED <<native2amiga_pending, n2asem, requestVars, intreq, serverVars>>
      /\ n2asem # s
  BY DEF Begin, BeginCall, Idle, Turns
<1> HIDE DEF e
<1>2. UNCHANGED <<native2amiga_pending, n2asem, cut_short, uae_int_requested, server>>
  BY <1>1 DEF requestVars, serverVars
<1>3. [at |-> "lock", left |-> e] \in [at : CallPC, left : Seq(Entry)]
  BY <1>0 DEF CallPC
<1>4. CallTypes'
  BY <1>1, <1>2, <1>3 DEF CallTypes
<1>5. \A t \in Senders \ {s} : call'[t] = call[t]
  BY <1>1 DEF CallTypes
<1>6. call'[s].at = "lock" /\ call'[s].left = e
  BY <1>1 DEF CallTypes
<1>7. Turns'
  BY <1>1, <1>2, <1>5, <1>6 DEF Turns, e
<1>8. n2asem # None => n2asem \in Senders /\ call'[n2asem] = call[n2asem]
  BY <1>1, <1>5 DEF CallTypes
<1>9. Left' = Left /\ Stream' = Stream
  BY <1>2, <1>8 DEF Left, Stream
<1>10. Whole(Stream)'
  BY <1>9
<1>11. Decoded' /\ Asked'
  BY <1>2, <1>8 DEF Decoded, Decoding, Asked
<1> QED BY <1>4, <1>7, <1>10, <1>11

\* A sender takes the lock: its call now ends the stream.
LEMMA LockKeepsCalls ==
  ASSUME CallInv, NEW s \in Senders, LockCalls(s)
  PROVE  CallInv'
<1> USE DEF CallInv
<1>1. /\ n2asem = None /\ n2asem' = s /\ call[s].at = "lock" /\ call' = [call EXCEPT ![s].at = "write"]
      /\ UNCHANGED <<native2amiga_pending, cut_short, uae_int_requested, server>>
  BY DEF LockCalls, CallAt, requestVars, serverVars
<1>2. s # None
  BY N2AAssumption
<1>3. \A t \in Senders \ {s} : call'[t] = call[t]
  BY <1>1 DEF CallTypes
<1>4. call'[s].at = "write" /\ call'[s].left = call[s].left
  BY <1>1 DEF CallTypes
<1>5. CallTypes'
  <2>1. call' \in [Senders -> [at : CallPC, left : Seq(Entry)]]
    BY <1>1 DEF CallTypes, CallPC
  <2> QED BY <1>1, <2>1 DEF CallTypes
<1>6. Turns'
  <2> SUFFICES ASSUME NEW t \in Senders
               PROVE  /\ call'[t].at \in {"write", "unlock"} <=> n2asem' = t
                      /\ call'[t].at \in {"idle", "unlock"} => call'[t].left = <<>>
                      /\ call'[t].at = "lock" => \E c \in NativeCall : call'[t].left = Entries(c)
    BY DEF Turns
  <2>1. CASE t = s
    BY <1>1, <1>4, <2>1
  <2>2. CASE t # s
    <3>1. call'[t] = call[t] /\ n2asem # t /\ n2asem' # t
      BY <1>1, <1>3, <2>2, N2AAssumption
    <3> QED BY <3>1 DEF Turns
  <2> QED BY <2>1, <2>2
<1>7. PICK c \in NativeCall : call[s].left = Entries(c)
  BY <1>1 DEF Turns
<1>8. Whole(Stream)'
  <2>1. Left = <<>> /\ Left' = Entries(c) /\ Serving' = Serving
    BY <1>1, <1>2, <1>4, <1>7 DEF Left, Serving
  <2>2. Serving \in Seq(Entry) /\ Stream = Serving \o Left /\ Stream' = Serving \o Entries(c)
    BY <2>1, StreamShape DEF Stream, Serving, Left
  <2>3. Stream = Serving
    BY <2>1, <2>2, ConcatEmptySeq
  <2> QED BY <2>2, <2>3, WholeCall, WholeConcat
<1>9. Decoded' /\ Asked'
  BY <1>1, <1>2, <1>4 DEF Decoded, Decoding, Asked
<1> QED BY <1>5, <1>6, <1>8, <1>9

\* An entry moves from its sender into the pipe: the stream is the same.
LEMMA WriteKeepsCalls ==
  ASSUME CallInv, NEW s \in Senders, WriteEntry(s)
  PROVE  CallInv' /\ Stream' = Stream
<1> USE DEF CallInv
<1> DEFINE left == call[s].left
<1>1. /\ call[s].at = "write" /\ left # <<>> /\ Len(native2amiga_pending) < N2ASize
      /\ native2amiga_pending' = Append(native2amiga_pending, Head(left))
      /\ call' = [call EXCEPT ![s].left = Tail(left)]
      /\ UNCHANGED <<n2asem, cut_short, uae_int_requested, server>>
  BY DEF WriteEntry, requestVars, serverVars
<1>2. n2asem = s /\ s # None
  BY <1>1, N2AAssumption DEF Turns
<1>3. left \in Seq(Entry) /\ native2amiga_pending \in Seq(Entry) /\ server.got \in Seq(Entry)
  BY StreamShape
<1>4. \A t \in Senders \ {s} : call'[t] = call[t]
  BY <1>1 DEF CallTypes
<1>5. call'[s].at = "write" /\ call'[s].left = Tail(left)
  BY <1>1 DEF CallTypes
<1>6. Head(left) \in Entry /\ Tail(left) \in Seq(Entry)
  BY <1>1, <1>3, HeadTailProperties
<1> HIDE DEF left
<1>7. CallTypes'
  <2>1. call' \in [Senders -> [at : CallPC, left : Seq(Entry)]]
    BY <1>1, <1>6 DEF CallTypes
  <2>2. native2amiga_pending' \in Seq(Entry) /\ Len(native2amiga_pending') = Len(native2amiga_pending) + 1
    BY <1>1, <1>3, <1>6, AppendProperties
  <2>3. Len(native2amiga_pending') <= N2ASize
    BY <1>1, <1>3, <2>2, N2AAssumption
  <2> QED BY <1>1, <2>1, <2>2, <2>3 DEF CallTypes
<1>8. Turns'
  BY <1>1, <1>2, <1>4, <1>5 DEF Turns
<1>9. Stream' = Stream
  <2>1. Stream = (server.got \o native2amiga_pending) \o left
    BY <1>2 DEF Stream, left
  <2>2. Stream' = (server.got \o Append(native2amiga_pending, Head(left))) \o Tail(left)
    BY <1>1, <1>2, <1>5 DEF Stream
  <2>3. server.got \o Append(native2amiga_pending, Head(left)) = Append(server.got \o native2amiga_pending, Head(left))
    <3>1. \A a \in Seq(Entry), b \in Seq(Entry), x \in Entry : a \o Append(b, x) = Append(a \o b, x)
      BY AppendedBehind
    <3> QED BY ONLY <1>3, <1>6, <3>1, Zenon
  <2>4. server.got \o native2amiga_pending \in Seq(Entry)
    BY <1>3
  <2>5. Append(server.got \o native2amiga_pending, Head(left)) \o Tail(left) = (server.got \o native2amiga_pending) \o left
    BY <1>1, <1>3, <2>4, Moved
  <2> QED BY <2>1, <2>2, <2>3, <2>5
<1>10. Whole(Stream)'
  BY <1>9
<1>11. Decoded' /\ Asked'
  BY <1>1, <1>2, <1>5 DEF Decoded, Decoding, Asked
<1> QED BY <1>7, <1>8, <1>9, <1>10, <1>11

\* A sender asks for the interrupt, and lets the next one have the lock.
LEMMA AskingKeepsCalls ==
  ASSUME CallInv, NEW s \in Senders, RequestInt(s) \/ UnlockCalls(s)
  PROVE  CallInv' /\ Stream' = Stream
<1> USE DEF CallInv
<1>1. call[s].at \in {"write", "unlock"} /\ n2asem = s /\ s # None /\ call[s].left = <<>>
  BY N2AAssumption DEF RequestInt, UnlockCalls, CallAt, Turns
<1>2. /\ call' = [call EXCEPT ![s].at = IF call[s].at = "write" THEN "unlock" ELSE "idle"]
      /\ UNCHANGED <<native2amiga_pending, server>>
      /\ call[s].at = "write" => n2asem' = n2asem /\ uae_int_requested' = 1 /\ cut_short' = FALSE
      /\ call[s].at = "unlock" => n2asem' = None /\ UNCHANGED <<uae_int_requested, cut_short>>
  BY DEF RequestInt, UnlockCalls, CallAt, requestVars, serverVars
<1>3. \A t \in Senders \ {s} : call'[t] = call[t]
  BY <1>2 DEF CallTypes
<1>4. /\ call'[s].left = <<>>
      /\ call'[s].at = IF call[s].at = "write" THEN "unlock" ELSE "idle"
  BY <1>1, <1>2 DEF CallTypes
<1>5. CallTypes'
  <2>1. call' \in [Senders -> [at : CallPC, left : Seq(Entry)]]
    BY <1>2 DEF CallTypes, CallPC
  <2>2. cut_short' \in BOOLEAN /\ n2asem' \in Senders \cup {None}
    BY <1>1, <1>2 DEF CallTypes
  <2> QED BY <1>2, <2>1, <2>2 DEF CallTypes
<1>6. Turns'
  <2> SUFFICES ASSUME NEW t \in Senders
               PROVE  /\ call'[t].at \in {"write", "unlock"} <=> n2asem' = t
                      /\ call'[t].at \in {"idle", "unlock"} => call'[t].left = <<>>
                      /\ call'[t].at = "lock" => \E c \in NativeCall : call'[t].left = Entries(c)
    BY DEF Turns
  <2>1. CASE t = s
    BY <1>1, <1>2, <1>4, <2>1
  <2>2. CASE t # s
    <3>1. call'[t] = call[t] /\ n2asem # t /\ n2asem' # t
      BY <1>1, <1>2, <1>3, <2>2, N2AAssumption
    <3> QED BY <3>1 DEF Turns
  <2> QED BY <2>1, <2>2
<1>7. Left = <<>> /\ Left' = <<>>
  BY <1>1, <1>2, <1>4 DEF Left
<1>8. Stream' = Stream
  BY <1>2, <1>7 DEF Stream, Left
<1>9. Whole(Stream)'
  BY <1>8
<1>10. Decoded'
  BY <1>2 DEF Decoded, Decoding
<1>11. Asked'
  BY <1>1, <1>2, <1>4 DEF Asked
<1> QED BY <1>5, <1>6, <1>8, <1>9, <1>10, <1>11

\* The interrupt reaches its server, or leaves it.
LEMMA ServerKeepsCalls ==
  ASSUME CallInv, Hsync \/ EnterServer \/ NothingLeft \/ ExitServer
  PROVE  CallInv' /\ Stream' = Stream
<1> USE DEF CallInv
<1>1. /\ UNCHANGED <<native2amiga_pending, n2asem, call, cut_short>>
      /\ server'.got = server.got /\ server' \in [at : ServerPC, got : Seq(Entry)]
  BY DEF Hsync, EnterServer, NothingLeft, ExitServer, senderVars, serverVars, requestVars, CallTypes, ServerPC
<1>2. CallTypes' /\ Turns'
  BY <1>1 DEF CallTypes, Turns
<1>3. Stream' = Stream /\ Whole(Stream)'
  BY <1>1 DEF Stream
<1>4. Decoded'
  BY <1>1 DEF Decoded, Decoding, Hsync, EnterServer, NothingLeft, ExitServer, serverVars, CallTypes
<1>5. Asked'
  <2>1. CASE Hsync
    BY <1>1, <2>1 DEF Asked, Hsync, serverVars, requestVars
  <2>2. CASE EnterServer
    BY <1>1, <2>2 DEF Asked, EnterServer, CallTypes, serverVars
  <2>3. CASE NothingLeft
    BY <1>1, <2>3 DEF Asked, NothingLeft
  <2>4. CASE ExitServer
    BY <1>1, <2>4 DEF Asked, ExitServer, requestVars
  <2> QED BY <2>1, <2>2, <2>3, <2>4
<1> QED BY <1>2, <1>3, <1>4, <1>5

\* The server decodes an entry: the stream is the same.
LEMMA ReadKeepsCalls ==
  ASSUME CallInv, ReadEntry
  PROVE  CallInv' /\ Serving' = Serving /\ Stream' = Stream
<1> USE DEF CallInv
<1> DEFINE p == native2amiga_pending
           g == server.got
<1>1. /\ server.at = "scan" /\ ~Complete /\ p # <<>>
      /\ p' = Tail(p) /\ server' = [server EXCEPT !.got = Append(g, Head(p))]
      /\ UNCHANGED <<n2asem, call, cut_short, uae_int_requested>>
  BY DEF ReadEntry, Take, senderVars, requestVars
<1>2. p \in Seq(Entry) /\ g \in Seq(Entry) /\ Head(p) \in Entry /\ Tail(p) \in Seq(Entry)
      /\ Len(Tail(p)) = Len(p) - 1
  BY <1>1, StreamShape, HeadTailProperties
<1>3. server'.got = Append(g, Head(p)) /\ server'.at = "scan"
  BY <1>1 DEF CallTypes
<1>4. /\ Append(g, Head(p)) \in Seq(Entry) /\ Len(Append(g, Head(p))) = Len(g) + 1
      /\ \A i \in 1 .. Len(g) : Append(g, Head(p))[i] = g[i]
  BY <1>2, AppendProperties
<1>5. CallTypes'
  <2>1. server' \in [at : ServerPC, got : Seq(Entry)]
    BY <1>1, <1>4 DEF CallTypes
  <2>2. p' \in Seq(Entry) /\ Len(p') <= N2ASize
    <3>1. Len(p) \in Nat /\ Len(p) <= N2ASize
      BY <1>2 DEF CallTypes
    <3> QED BY <1>1, <1>2, <3>1, N2AAssumption
  <2> QED BY <1>1, <2>1, <2>2 DEF CallTypes
<1>6. Turns'
  BY <1>1 DEF Turns
<1>7. Serving' = Serving
  <2>1. Append(g, Head(p)) \o Tail(p) = g \o p
    BY <1>1, <1>2, Moved
  <2> QED BY <1>1, <1>3, <2>1 DEF Serving
<1>8. Stream' = Stream /\ Whole(Stream)'
  BY <1>1, <1>7 DEF Stream, Serving
<1>9. Decoded'
  <2> SUFFICES Len(server'.got) <= Args(server'.got[1].of.kind) + 1
    BY <1>3 DEF Decoded
  <2>1. CASE g = <<>>
    <3>1. Len(server'.got) = 1
      BY <1>3, <1>4, <2>1
    <3> QED BY <3>1, EntryShape
  <2>2. CASE g # <<>>
    <3>1. Len(g) \in Nat /\ Len(g) >= 1 /\ Args(g[1].of.kind) \in 1 .. 2
      BY <1>2, <2>2, EntryShape
    <3>2. Len(g) <= Args(g[1].of.kind) + 1 /\ Len(g) # Args(g[1].of.kind) + 1
      BY <1>1, <2>2 DEF Decoded, Decoding, Complete
    <3>3. server'.got[1] = g[1] /\ Len(server'.got) = Len(g) + 1
      BY <1>3, <1>4, <3>1
    <3> QED BY <3>1, <3>2, <3>3
  <2> QED BY <2>1, <2>2
<1>10. Asked'
  BY <1>3 DEF Asked
<1> QED BY <1>5, <1>6, <1>7, <1>8, <1>9, <1>10

\* The call that was decoded is made: it was a whole one, and so is the rest.
LEMMA MakeKeepsCalls ==
  ASSUME CallInv, MakeCall
  PROVE  /\ CallInv' /\ Serving' = native2amiga_pending /\ server.got \in Seq(Entry) /\ server.got # <<>>
         /\ \A i \in 1 .. Len(server.got) : server.got[i].of = server.got[1].of /\ server.got[i].part = i
         /\ UNCHANGED <<native2amiga_pending, n2asem, call>>
<1> USE DEF CallInv
<1> DEFINE p == native2amiga_pending
           g == server.got
           q == p \o Left
<1>1. /\ server.at = "scan" /\ Complete /\ server' = [server EXCEPT !.got = <<>>]
      /\ UNCHANGED <<p, n2asem, call, cut_short, uae_int_requested>>
  BY DEF MakeCall, senderVars, requestVars
<1>2. p \in Seq(Entry) /\ g \in Seq(Entry) /\ Left \in Seq(Entry) /\ q \in Seq(Entry)
  BY StreamShape
<1>3. g # <<>> /\ Len(g) = Args(g[1].of.kind) + 1 /\ Len(g) <= Args(g[1].of.kind) + 1
  BY <1>1 DEF Complete, Decoding, Decoded
<1>4. server'.got = <<>> /\ server'.at = "scan" /\ server' \in [at : ServerPC, got : Seq(Entry)]
  <2>1. <<>> \in Seq(Entry)
    BY EmptySeq
  <2> QED BY <1>1, <2>1 DEF CallTypes
<1>5. Stream = g \o q /\ Stream' = q /\ Serving' = p
  <2>1. Stream = (g \o p) \o Left
    BY DEF Stream, Left
  <2>2. Stream' = (<<>> \o p) \o Left
    BY <1>1, <1>4 DEF Stream, Left
  <2>3. <<>> \o p = p
    BY <1>2, ConcatEmptySeq
  <2>4. (g \o p) \o Left = g \o (p \o Left)
    <3>1. \A a \in Seq(Entry), b \in Seq(Entry), c \in Seq(Entry) : (a \o b) \o c = a \o (b \o c)
      BY ConcatAssociative
    <3> QED BY ONLY <1>2, <3>1, Zenon
  <2> QED BY <1>1, <1>4, <2>1, <2>2, <2>3, <2>4 DEF Serving
<1> HIDE DEF q
<1>6. /\ \A i \in 1 .. Len(g) : g[i].of = g[1].of /\ g[i].part = i
      /\ Whole(q)
  BY <1>2, <1>3, <1>5, WholeRest
<1>7. CallTypes' /\ Turns' /\ Decoded' /\ Asked'
  BY <1>1, <1>4 DEF CallTypes, Turns, Decoded, Decoding, Asked
<1>8. Whole(Stream)'
  BY <1>5, <1>6
<1> QED BY <1>1, <1>2, <1>3, <1>5, <1>6, <1>7, <1>8

\* A reset between two calls of the server forgets the server.
LEMMA ResetKeepsCalls ==
  ASSUME CallInv, N2AReset, ~Decoding
  PROVE  CallInv' /\ Stream' = Stream
<1> USE DEF CallInv
<1>1. /\ UNCHANGED <<native2amiga_pending, n2asem, call, uae_int_requested>>
      /\ server'.got = <<>> /\ server.got = <<>> /\ server'.at = "idle"
      /\ server' \in [at : ServerPC, got : Seq(Entry)]
      /\ cut_short' = (cut_short \/ server.at # "idle")
  BY DEF N2AReset, senderVars, Decoding, CallTypes, ServerPC
<1>2. cut_short' \in BOOLEAN
  BY <1>1
<1>3. CallTypes' /\ Turns'
  BY <1>1, <1>2 DEF CallTypes, Turns
<1>4. Stream' = Stream /\ Whole(Stream)'
  BY <1>1 DEF Stream
<1>5. Decoded'
  BY <1>1 DEF Decoded, Decoding
<1>6. Asked'
  <2>1. native2amiga_pending # <<>> /\ server.at = "scan" => cut_short'
    BY ONLY <1>1, Zenon
  <2>2. cut_short => cut_short'
    BY ONLY <1>1, Zenon
  <2> QED BY <1>1, <2>1, <2>2 DEF Asked
<1> QED BY <1>3, <1>4, <1>5, <1>6

\* Every step of senders and server keeps calls whole.
LEMMA CallsStay ==
  ASSUME CallInv, CallStep
  PROVE  CallInv'
<1>1. ASSUME NEW s \in Senders, Send(s) PROVE CallInv'
  BY <1>1, LockKeepsCalls, WriteKeepsCalls, AskingKeepsCalls DEF Send
<1>2. ASSUME NEW s \in Senders, NEW c \in NativeCall, Begin(s, c) PROVE CallInv'
  BY <1>2, BeginKeepsCalls
<1>3. CASE Serve
  BY <1>3, ServerKeepsCalls, ReadKeepsCalls, MakeKeepsCalls DEF Serve
<1>4. CASE N2AReset /\ ~Decoding
  BY <1>4, ResetKeepsCalls
<1>5. CASE UNCHANGED n2aVars
  BY <1>5 DEF n2aVars, senderVars, requestVars, serverVars, CallInv, CallTypes, Turns, Stream, Decoded,
              Decoding, Asked
<1> QED BY <1>1, <1>2, <1>3, <1>4, <1>5 DEF CallStep

\* Whole calls are what the run checks.
LEMMA CallsAreWholeThen ==
  ASSUME CallInv
  PROVE  CallsAreWhole
<1>1. NeverNotEnough
  BY DEF NeverNotEnough, CallInv, Asked
<1>2. Stream \in Seq(Entry)
  <2>1. \A a \in Seq(Entry), b \in Seq(Entry) : a \o b \in Seq(Entry)
    BY ConcatProperties
  <2>2. Serving \in Seq(Entry) /\ Left \in Seq(Entry) /\ Stream = Serving \o Left
    BY StreamShape DEF CallInv
  <2> QED BY ONLY <2>1, <2>2, Zenon
<1>3. Stream # <<>> => Head(Stream) = Stream[1]
  BY <1>2
<1> QED BY <1>1, <1>3 DEF CallsAreWhole, CallInv, Whole

-----------------------------------------------------------------------------
(* The unit: what its variables range over, and who may be making a call.  *)

DevPC == {"none", "start", "read", "lock", "die", "work", "add", "release", "unlock", "sending"}
EmuPC == {"cpu", "open", "begin", "abort", "close", "reset", "reset_close", "reset_clear", "notify"}

AccessPC == {"wait", "find", "free", "store", "mark", "done", "full"}
Kinds == {"NONE", "TEMP", "CHANGEINT"}
Accesses == [step : AccessPC, slot : Slots, req : Requests \cup {None}, type : Kinds]
TableTypes ==
    /\ d_request \in [Slots -> Requests \cup {None}]
    /\ d_request_type \in [Slots -> Kinds]
    /\ access \in [{"emu", "dev"} -> Accesses]
AtWork == {"work", "add", "release"}
DevTypes ==
    /\ dev \in [at : DevPC, req : IoReq \cup {Death}]
    /\ dev.at \in AtWork => dev.req \in IoReq
    /\ dev.at \in {"start", "die"} => dev.req = Death
EmuStates == [at : {"begin", "abort"}, req : Requests]
               \cup [at : EmuPC \ {"begin", "abort", "reset"}, req : {None}]
               \cup [at : {"reset"}, req : {None}, round : Nat]
ThreadTypes ==
    /\ requests \in Seq(IoReq \cup {Death})
    /\ opencount \in Nat /\ sync_sem \in Nat /\ leaving \in Nat
    /\ thread_running \in {0, 1} /\ change_sem \in {0, 1}
    /\ emu \in EmuStates
AmigaTypes ==
    /\ owner \in [Requests -> {"Amiga", "device"}] /\ command \in [Requests -> Commands]
    /\ boot \in Nat /\ unmarked \subseteq Requests
    /\ sent \in Nat /\ signals \in Nat /\ others \in 0 .. MaxOther

\* The unit's thread calls only to reply, the emulator's only in a notification.
Callers ==
    /\ dev.at # "sending" => Idle(Device)
    /\ emu.at = "notify" <=> ~Idle(Notifier)

\* The death message is the last one, if it has been sent.
Told(q) == q # <<>> /\ q[Len(q)] = Death /\ \A i \in 1 .. (Len(q) - 1) : q[i] # Death
Untold(q) == \A i \in 1 .. Len(q) : q[i] # Death

\* The unit's thread is being started, serves, is to die, or is gone; where the
\* emulator thread is says which.
Busy == {"lock", "work", "add", "release", "sending", "unlock"}
Living == dev.at = "read" \/ (dev.at \in Busy /\ dev.req # Death)
Starting ==
    /\ requests = <<>>
    /\ \/ dev.at = "start" /\ thread_running = 0 /\ sync_sem = 0
       \/ dev.at = "read" /\ thread_running = 1 /\ sync_sem = 1
Alive == thread_running = 1 /\ sync_sem = 0 /\ Living /\ Untold(requests)
Dying ==
    /\ thread_running = 1 /\ sync_sem = 0
    /\ \/ Living /\ Told(requests)
       \/ requests = <<>> /\ dev.req = Death /\ dev.at \in {"lock", "die"}
Gone == thread_running = 0 /\ dev.at = "none" /\ requests = <<>>
Life ==
    /\ emu.at = "open" => Starting /\ opencount = 0
    /\ emu.at \in {"close", "reset_close"} => Dying \/ (Gone /\ sync_sem = 1)
    /\ emu.at \in {"cpu", "notify", "begin", "abort", "reset"} =>
         IF opencount > 0 THEN Alive ELSE Gone /\ sync_sem = 0
    /\ emu.at \in {"begin", "abort", "reset"} => opencount > 0
    /\ emu.at = "close" => opencount = 0
    /\ emu.at = "reset_clear" => Gone /\ sync_sem = 0

\* change_sem is taken by the thread at work or by one that leaves, by one only.
Doing == {"work", "add", "release", "sending", "unlock", "die"}
Guarded == leaving + (IF dev.at \in Doing THEN 1 ELSE 0) = 1 - change_sem

\* Each open is counted.
Opens == opencount + (IF emu.at = "open" THEN 1 ELSE 0) <= others

Lives == TableTypes /\ DevTypes /\ ThreadTypes /\ AmigaTypes /\ Life /\ Guarded /\ Opens
Types == CallInv /\ Lives /\ Callers

\* The three senders are different threads.
LEMMA ThreeSenders ==
  /\ Device # Socket /\ Device # Notifier /\ Socket # Notifier
  /\ Device \in Senders /\ Socket \in Senders /\ Notifier \in Senders
<1>1. /\ IsFiniteSet({}) /\ IsFiniteSet({Device}) /\ IsFiniteSet({Device, Socket}) /\ IsFiniteSet({Device, Notifier})
  <2>1. \A x, y : IsFiniteSet({x, y})
    <3> SUFFICES ASSUME NEW x, NEW y PROVE IsFiniteSet({x, y})
      OBVIOUS
    <3>1. IsFiniteSet({x})
      BY FS_Singleton
    <3>2. {x, y} = {x} \cup {y}
      OBVIOUS
    <3> QED BY <3>1, <3>2, FS_AddElement
  <2> QED BY <2>1, FS_EmptySet, FS_Singleton
<1>2. \A x : \A y : Cardinality({x, y}) <= 2
  <2> SUFFICES ASSUME NEW x, NEW y PROVE Cardinality({x, y}) <= 2
    OBVIOUS
  <2>1. IsFiniteSet({x}) /\ Cardinality({x}) = 1
    BY FS_Singleton
  <2>2. {x, y} = {x} \cup {y}
    OBVIOUS
  <2> QED BY <2>1, <2>2, FS_AddElement
<1>3. Senders = {Device, Socket, Notifier} /\ Cardinality(Senders) = 3
  BY HardfileAssumption
<1>4. ~ (3 <= 2)
  OBVIOUS
<1>5. Device # Socket
  <2> SUFFICES ASSUME Device = Socket PROVE FALSE
    OBVIOUS
  <2>1. Senders = {Device, Notifier}
    BY <1>3
  <2> QED BY <1>2, <1>3, <1>4, <2>1
<1>6. Device # Notifier /\ Socket # Notifier
  <2> SUFFICES ASSUME Device = Notifier \/ Socket = Notifier PROVE FALSE
    OBVIOUS
  <2>1. Senders = {Device, Socket}
    BY <1>3
  <2> QED BY <1>2, <1>3, <1>4, <2>1
<1> QED BY <1>3, <1>5, <1>6

\* The steps of Next, one by one.
Steps ==
    \/ Interrupts \/ Deliver \/ OpenDone \/ BeginDone \/ AbortDone \/ CloseDone
    \/ NotifySends \/ ResetAborts \/ ResetTellsThread \/ ResetCloses \/ ResetClears
    \/ hardfile_open \/ hardfile_close \/ Reset \/ notify_send
    \/ (\E r \in Requests : hardfile_abortio(r))
    \/ (\E r \in Requests, c \in Commands : hardfile_beginio(r, c))
    \/ Routine("emu") \/ Routine("dev")
    \/ DevStart \/ DevRead \/ DevLock \/ DevWork \/ DevAdded
    \/ DevReply \/ DevUnlock \/ DevDie \/ DevGone
    \/ (Send(Device) /\ UNCHANGED <<privdata, change_sem, dev, leaving, emu, amigaVars, counters>>)
    \/ SocketSignals \/ SocketSends
    \/ UNCHANGED vars

\* Every step is one of them.
LEMMA NextIsSteps == [Next]_vars => Steps
BY DEF Next, Emulator, Program, DeviceThread, Steps

\* A look at a slot, a store or a mark leaves the table what it is.
LEMMA RoutineTypes ==
  ASSUME TableTypes, NEW t \in {"emu", "dev"}, Routine(t)
  PROVE  TableTypes'
<1> DEFINE a == access[t]
<1>0. /\ a \in Accesses /\ access \in [{"emu", "dev"} -> Accesses]
      /\ d_request \in [Slots -> Requests \cup {None}] /\ d_request_type \in [Slots -> Kinds]
  BY DEF TableTypes
<1>1. 1 \in Slots /\ \A i \in Slots : i < MAX_ASYNC_REQUESTS => i + 1 \in Slots
  BY HardfileAssumption DEF Slots
<1>2. \A step \in AccessPC, r \in Requests \cup {None}, type \in Kinds : Access(step, r, type) \in Accesses
  BY <1>1 DEF Access, Accesses
<1>3. Done \in Accesses /\ Full \in Accesses
  BY <1>2 DEF Done, Full, AccessPC, Kinds
<1>4. a.step \in AccessPC /\ a.slot \in Slots /\ a.req \in Requests \cup {None} /\ a.type \in Kinds
  BY <1>0 DEF Accesses
<1>5. ASSUME NEW b \in Accesses, First(t, b) PROVE access' \in [{"emu", "dev"} -> Accesses]
  BY <1>0, <1>5 DEF First
<1>6. ASSUME NEW step \in AccessPC, Then(t, step) PROVE access' \in [{"emu", "dev"} -> Accesses]
  <2>1. [a EXCEPT !.step = step] \in Accesses
    BY <1>0 DEF Accesses
  <2>2. access' = [access EXCEPT ![t] = [a EXCEPT !.step = step]]
    BY <1>6 DEF Then
  <2> QED BY <1>0, <2>1, <2>2
<1>7. ASSUME NEW b \in Accesses, NextSlot(t, b) PROVE access' \in [{"emu", "dev"} -> Accesses]
  <2>1. CASE a.slot < MAX_ASYNC_REQUESTS
    <3>1. [a EXCEPT !.slot = a.slot + 1] \in Accesses
      BY <1>0, <1>1, <1>4, <2>1 DEF Accesses
    <3>2. access' = [access EXCEPT ![t] = [a EXCEPT !.slot = a.slot + 1]]
      BY <1>7, <2>1 DEF NextSlot
    <3> QED BY <1>0, <3>1, <3>2
  <2>2. CASE ~ (a.slot < MAX_ASYNC_REQUESTS)
    BY <1>5, <1>7, <2>2 DEF NextSlot
  <2> QED BY <2>1, <2>2
<1>8. CASE Wait(t)
  <2>1. UNCHANGED <<d_request, d_request_type>>
    BY <1>8 DEF Wait
  <2>2. Access("wait", a.req, "NONE") \in Accesses /\ Access("find", a.req, "NONE") \in Accesses
    BY <1>2, <1>4 DEF AccessPC, Kinds
  <2>3. First(t, Access("wait", a.req, "NONE")) \/ NextSlot(t, Access("find", a.req, "NONE"))
    BY <1>8 DEF Wait, Aborts
  <2> HIDE DEF a
  <2> QED BY <1>0, <1>5, <1>7, <2>1, <2>2, <2>3 DEF TableTypes
<1>9. CASE Seek(t)
  <2>1. UNCHANGED <<d_request, d_request_type>>
    BY <1>9 DEF Seek
  <2>2. Access("free", a.req, a.type) \in Accesses /\ "mark" \in AccessPC /\ "store" \in AccessPC
    BY <1>2, <1>4 DEF AccessPC
  <2>3. \/ Then(t, "mark") \/ Then(t, "store")
        \/ NextSlot(t, Full) \/ NextSlot(t, Done) \/ NextSlot(t, Access("free", a.req, a.type))
    BY <1>9 DEF Seek
  <2> HIDE DEF a
  <2> QED BY <1>0, <1>3, <1>6, <1>7, <2>1, <2>2, <2>3 DEF TableTypes
<1>10. CASE Store(t)
  <2>1. Then(t, "mark") /\ UNCHANGED d_request_type
        /\ \E r \in {None, a.req} : d_request' = [d_request EXCEPT ![a.slot] = r]
    BY <1>10 DEF Store
  <2>2. "mark" \in AccessPC
    BY DEF AccessPC
  <2> HIDE DEF a
  <2> QED BY <1>0, <1>4, <1>6, <2>1, <2>2 DEF TableTypes
<1>11. CASE Mark(t)
  <2>1. First(t, Done) /\ UNCHANGED d_request /\ d_request_type' = [d_request_type EXCEPT ![a.slot] = a.type]
    BY <1>11 DEF Mark
  <2> HIDE DEF a
  <2> QED BY <1>0, <1>3, <1>4, <1>5, <2>1 DEF TableTypes
<1> QED BY <1>8, <1>9, <1>10, <1>11 DEF Routine

\* The table's types: clearing it, the routines and their callers change it.
LEMMA TableTypesStay ==
  ASSUME TableTypes, DevTypes, Steps
  PROVE  TableTypes'
<1>1. ASSUME NEW t \in {"emu", "dev"}, NEW step \in AccessPC, NEW r \in Requests \cup {None}, NEW type \in Kinds,
             First(t, Access(step, r, type)), UNCHANGED <<d_request, d_request_type>>
      PROVE  TableTypes'
  <2>1. Access(step, r, type) \in Accesses
    BY HardfileAssumption DEF Access, Accesses, Slots
  <2> QED BY <1>1, <2>1 DEF TableTypes, First
<1>2. {"wait", "find", "done"} \subseteq AccessPC /\ Kinds = {"NONE", "TEMP", "CHANGEINT"}
  BY DEF AccessPC, Kinds
<1>3. CASE hardfile_open
  BY <1>3 DEF hardfile_open, table, TableTypes, Kinds
<1>4. CASE \E r \in Requests, c \in Commands : hardfile_beginio(r, c)
  BY <1>1, <1>2, <1>4 DEF hardfile_beginio, Adds
<1>5. CASE \E r \in Requests : hardfile_abortio(r)
  BY <1>1, <1>2, <1>5 DEF hardfile_abortio, Aborts
<1>6. CASE BeginDone
  BY <1>1, <1>2, <1>6 DEF BeginDone, Done
<1>7. CASE ResetAborts
  <2>1. d_request[Unit] \in Requests \cup {None}
    BY HardfileAssumption DEF TableTypes, Slots
  <2>2. UNCHANGED <<d_request, d_request_type>>
    BY <1>7 DEF ResetAborts
  <2>3. First("emu", Access("wait", d_request[Unit], "NONE")) \/ UNCHANGED access
    BY <1>7 DEF ResetAborts, Aborts
  <2>4. CASE First("emu", Access("wait", d_request[Unit], "NONE"))
    <3> HIDE DEF TableTypes
    <3> QED BY <1>1, <1>2, <2>1, <2>2, <2>4
  <2> QED BY <2>2, <2>3, <2>4 DEF TableTypes
<1>8. CASE ResetClears
  BY <1>8 DEF ResetClears, TableTypes, Kinds
<1>9. CASE DevWork \/ DevAdded
  <2>1. dev.req.req \in Requests
    BY <1>9 DEF DevWork, DevAdded, DevTypes, IoReq, AtWork
  <2>2. UNCHANGED <<d_request, d_request_type>>
    BY <1>9 DEF DevWork, DevAdded
  <2>3. \/ UNCHANGED access
        \/ \E type \in {"NONE", "CHANGEINT"} : First("dev", Access("find", dev.req.req, type))
    BY <1>9 DEF DevWork, DevAdded, Adds, Releases
  <2>4. UNCHANGED access => TableTypes'
    BY <2>2 DEF TableTypes
  <2> QED BY <1>1, <1>2, <2>1, <2>2, <2>3, <2>4
<1>10. CASE Routine("emu") \/ Routine("dev")
  BY <1>10, RoutineTypes
<1>11. CASE /\ ~ (hardfile_open \/ BeginDone \/ ResetAborts \/ ResetClears \/ DevWork \/ DevAdded \/ Routine("emu") \/ Routine("dev"))
            /\ ~ \E r \in Requests : hardfile_abortio(r)
            /\ ~ \E r \in Requests, c \in Commands : hardfile_beginio(r, c)
  <2>1. UNCHANGED table
    BY <1>11 DEF Steps, vars, privdata, Interrupts, Deliver, OpenDone, AbortDone, CloseDone, NotifySends,
       ResetTellsThread, ResetCloses, hardfile_close, Reset, notify_send, DevStart, DevRead, DevLock, DevReply,
       DevUnlock, DevDie, DevGone, SocketSignals, SocketSends
  <2> QED BY <2>1 DEF table, TableTypes
<1> QED BY <1>3, <1>4, <1>5, <1>6, <1>7, <1>8, <1>9, <1>10, <1>11

\* Everything but the unit's thread and a first open leaves the thread alone.
DevStep ==
    DevStart \/ DevRead \/ DevLock \/ DevWork \/ DevAdded \/ DevReply \/ DevUnlock \/ DevDie

\* No other step moves the unit's thread.
LEMMA DevAlone ==
  ASSUME Steps, ~ DevStep, ~ hardfile_open
  PROVE  UNCHANGED dev
BY DEF Steps, DevStep, Routine, vars, Interrupts, Deliver, OpenDone, BeginDone, AbortDone, CloseDone, NotifySends, ResetAborts,
       ResetTellsThread, ResetCloses, ResetClears, hardfile_close, Reset, notify_send, hardfile_abortio, hardfile_beginio,
       DevGone, SocketSignals, SocketSends

\* The thread's place moves; only reading takes a request.
LEMMA DevMoves ==
  ASSUME DevTypes, NEW to \in DevPC, dev' = [dev EXCEPT !.at = to]
  PROVE  /\ dev'.at = to /\ dev'.req = dev.req
         /\ dev' \in [at : DevPC, req : IoReq \cup {Death}]
BY DEF DevTypes

\* The thread is somewhere, with a request when it has work.
LEMMA DevTypesStay ==
  ASSUME DevTypes, TableTypes, ThreadTypes, Steps
  PROVE  DevTypes'
<1>1. Death \in IoReq \cup {Death} /\ None \notin Requests /\ Death \notin IoReq
  BY HardfileAssumption DEF IoReq, Death
<1>2. ASSUME NEW where \in DevPC \ AtWork, NEW r \in IoReq \cup {Death}, dev' = At(where, r),
             where \in {"start", "die"} => r = Death
      PROVE  DevTypes'
  BY <1>2 DEF DevTypes, At
<1>3. ASSUME NEW to \in DevPC, dev' = [dev EXCEPT !.at = to], to \in AtWork => dev.req \in IoReq,
             to \in {"start", "die"} => dev.req = Death
      PROVE  DevTypes'
  BY <1>3, DevMoves DEF DevTypes
<1>4. CASE hardfile_open
  <2>1. dev' = dev \/ dev' = At("start", Death)
    BY <1>4 DEF hardfile_open
  <2>2. "start" \in DevPC \ AtWork
    BY DEF DevPC, AtWork
  <2>3. dev' = dev => DevTypes'
    BY DEF DevTypes
  <2> QED BY <1>1, <1>2, <2>1, <2>2, <2>3
<1>5. CASE DevStart
  BY <1>3, <1>5 DEF DevStart, Dev, DevPC, AtWork
<1>6. CASE DevRead
  <2>1. dev' = At("lock", Head(requests)) /\ requests # <<>>
    BY <1>6 DEF DevRead
  <2>2. Head(requests) \in IoReq \cup {Death}
    BY <2>1, HeadTailProperties DEF ThreadTypes
  <2>3. "lock" \in DevPC \ AtWork
    BY DEF DevPC, AtWork
  <2> QED BY <1>2, <2>1, <2>2, <2>3
<1>7. CASE DevLock
  <2>1. dev.at = "lock" /\ dev' = [dev EXCEPT !.at = IF dev.req = Death THEN "die" ELSE "work"]
    BY <1>7 DEF DevLock, Dev
  <2>2. dev.req # Death => dev.req \in IoReq
    BY <2>1 DEF DevTypes
  <2>3. CASE dev.req = Death
    BY <1>3, <2>1, <2>3 DEF DevPC, AtWork
  <2>4. CASE dev.req # Death
    BY <1>3, <2>1, <2>2, <2>4 DEF DevPC, AtWork
  <2> QED BY <2>3, <2>4
<1>8. CASE DevWork
  <2>1. dev.at = "work" /\ (dev' = [dev EXCEPT !.at = "add"] \/ dev' = [dev EXCEPT !.at = "release"])
    BY <1>8 DEF DevWork
  <2>2. dev.req \in IoReq
    BY <2>1 DEF DevTypes, AtWork
  <2> QED BY <1>3, <2>1, <2>2 DEF DevPC, AtWork
<1>9. CASE DevAdded
  <2>1. dev.at = "add" /\ (dev' = [dev EXCEPT !.at = "unlock"] \/ dev' = [dev EXCEPT !.at = "release"])
    BY <1>9 DEF DevAdded
  <2>2. dev.req \in IoReq
    BY <2>1 DEF DevTypes, AtWork
  <2> QED BY <1>3, <2>1, <2>2 DEF DevPC, AtWork
<1>11. CASE DevReply
  BY <1>3, <1>11 DEF DevReply, Dev, DevPC, AtWork
<1>12. CASE DevUnlock
  BY <1>1, <1>2, <1>12 DEF DevUnlock, DevPC, AtWork
<1>13. CASE DevDie
  BY <1>1, <1>2, <1>13 DEF DevDie, DevPC, AtWork
<1>14. CASE ~ DevStep /\ ~ hardfile_open
  <2>1. dev' = dev
    BY <1>14, DevAlone
  <2> QED BY <2>1 DEF DevTypes
<1> QED BY <1>4, <1>5, <1>6, <1>7, <1>8, <1>9, <1>11, <1>12, <1>13, <1>14 DEF DevStep

\* The semaphores, the pipe and the emulator thread's place.
LEMMA ThreadTypesStay ==
  ASSUME TableTypes, DevTypes, ThreadTypes, AmigaTypes, Steps
  PROVE  ThreadTypes'
<1>1. requests' \in Seq(IoReq \cup {Death})
  <2>1. ASSUME NEW x \in IoReq \cup {Death}, requests' = Append(requests, x) PROVE requests' \in Seq(IoReq \cup {Death})
    BY <2>1 DEF ThreadTypes
  <2>2. CASE requests' = requests
    BY <2>2 DEF ThreadTypes
  <2>3. CASE requests' = <<>>
    BY <2>3, EmptySeq
  <2>4. CASE requests' = Append(requests, Death)
    BY <2>1, <2>4
  <2>5. CASE BeginDone
    <3>1. requests' = Append(requests, [req |-> emu.req, boot |-> boot])
      BY <2>5 DEF BeginDone
    <3>2. [req |-> emu.req, boot |-> boot] \in IoReq
      <4>1. emu.req \in Requests
        BY <2>5 DEF BeginDone, Emu, ThreadTypes, EmuStates
      <4> QED BY <4>1 DEF AmigaTypes, IoReq
    <3> QED BY <2>1, <3>1, <3>2
  <2>6. CASE requests # <<>> /\ requests' = Tail(requests)
    BY <2>6, HeadTailProperties DEF ThreadTypes
  <2>7. \/ requests' = requests \/ requests' = <<>> \/ requests' = Append(requests, Death)
        \/ BeginDone
        \/ requests # <<>> /\ requests' = Tail(requests)
    BY DEF Steps, vars, privdata, Interrupts, Deliver, OpenDone, BeginDone, AbortDone, CloseDone, NotifySends,
       ResetAborts, ResetTellsThread, ResetCloses, ResetClears, hardfile_open, hardfile_close, Reset, notify_send,
       hardfile_abortio, hardfile_beginio, DevStart, DevRead, DevLock, DevWork, DevAdded, Routine,
       DevReply, DevUnlock, DevDie, DevGone, SocketSignals, SocketSends
  <2> QED BY <2>2, <2>3, <2>4, <2>5, <2>6, <2>7
<1>2. opencount' \in Nat
  <2>1. \/ opencount' = opencount
        \/ opencount' = opencount + 1
        \/ opencount > 0 /\ opencount' = opencount - 1
        \/ opencount' = 0
    BY DEF ThreadTypes, Steps, vars, privdata, Interrupts, Deliver, OpenDone, BeginDone, AbortDone, CloseDone, NotifySends,
       ResetAborts, ResetTellsThread, ResetCloses, ResetClears, hardfile_open, hardfile_close, Reset, notify_send,
       hardfile_abortio, hardfile_beginio, DevStart, DevRead, DevLock, DevWork, DevAdded, Routine,
       DevReply, DevUnlock, DevDie, DevGone, SocketSignals, SocketSends
  <2> QED BY <2>1 DEF ThreadTypes
<1>3. sync_sem' \in Nat
  <2>1. \/ sync_sem' = sync_sem
        \/ sync_sem' = sync_sem + 1
        \/ sync_sem > 0 /\ sync_sem' = sync_sem - 1
        \/ sync_sem' = 0
    BY DEF ThreadTypes, Steps, vars, privdata, Interrupts, Deliver, OpenDone, BeginDone, AbortDone, CloseDone, NotifySends,
       ResetAborts, ResetTellsThread, ResetCloses, ResetClears, hardfile_open, hardfile_close, Reset, notify_send,
       hardfile_abortio, hardfile_beginio, DevStart, DevRead, DevLock, DevWork, DevAdded, Routine,
       DevReply, DevUnlock, DevDie, DevGone, SocketSignals, SocketSends
  <2> QED BY <2>1 DEF ThreadTypes
<1>5. thread_running' \in {0, 1}
  <2>1. \/ thread_running' = thread_running
        \/ thread_running' \in {0, 1}
    BY DEF ThreadTypes, Steps, vars, privdata, Interrupts, Deliver, OpenDone, BeginDone, AbortDone, CloseDone, NotifySends,
       ResetAborts, ResetTellsThread, ResetCloses, ResetClears, hardfile_open, hardfile_close, Reset, notify_send,
       hardfile_abortio, hardfile_beginio, DevStart, DevRead, DevLock, DevWork, DevAdded, Routine,
       DevReply, DevUnlock, DevDie, DevGone, SocketSignals, SocketSends
  <2> QED BY <2>1 DEF ThreadTypes
<1>6. leaving' \in Nat
  <2>1. \/ leaving' = leaving
        \/ leaving' = leaving + 1
        \/ leaving > 0 /\ leaving' = leaving - 1
    BY DEF ThreadTypes, Steps, vars, privdata, Interrupts, Deliver, OpenDone, BeginDone, AbortDone, CloseDone, NotifySends,
       ResetAborts, ResetTellsThread, ResetCloses, ResetClears, hardfile_open, hardfile_close, Reset, notify_send,
       hardfile_abortio, hardfile_beginio, DevStart, DevRead, DevLock, DevWork, DevAdded, Routine,
       DevReply, DevUnlock, DevDie, DevGone, SocketSignals, SocketSends
  <2> QED BY <2>1 DEF ThreadTypes
<1>7. change_sem' \in {0, 1}
  <2>1. \/ change_sem' = change_sem
        \/ change_sem' \in {0, 1}
    BY DEF ThreadTypes, Steps, vars, privdata, Interrupts, Deliver, OpenDone, BeginDone, AbortDone, CloseDone, NotifySends,
       ResetAborts, ResetTellsThread, ResetCloses, ResetClears, hardfile_open, hardfile_close, Reset, notify_send,
       hardfile_abortio, hardfile_beginio, DevStart, DevRead, DevLock, DevWork, DevAdded, Routine,
       DevReply, DevUnlock, DevDie, DevGone, SocketSignals, SocketSends
  <2> QED BY <2>1 DEF ThreadTypes
<1>4. emu' \in EmuStates
  <2>1. /\ \A where \in {"begin", "abort"}, r \in Requests : At(where, r) \in EmuStates
        /\ \A where \in EmuPC \ {"begin", "abort", "reset"} : At(where, None) \in EmuStates
        /\ \A n \in Nat : [at |-> "reset", req |-> None, round |-> n] \in EmuStates
    BY DEF At, EmuStates
  <2>2. CASE ResetAborts
    <3>1. emu.at = "reset" /\ emu' = [at |-> "reset", req |-> None, round |-> emu.round + 1]
      BY <2>2 DEF ResetAborts, Round
    <3>2. emu.round \in Nat
      BY <3>1 DEF ThreadTypes, EmuStates, EmuPC
    <3> QED BY <2>1, <3>1, <3>2
  <2>3. CASE Reset
    BY <2>1, <2>3 DEF Reset, Round, EmuPC
  <2>4. CASE ~ Reset /\ ~ ResetAborts
    <3>1. \/ emu' = emu
          \/ \E where \in {"begin", "abort"}, r \in Requests : emu' = At(where, r)
          \/ \E where \in EmuPC \ {"begin", "abort", "reset"} : emu' = At(where, None)
      BY <2>4 DEF Emu, EmuPC, Steps, vars, Interrupts, Deliver, OpenDone, BeginDone, AbortDone, CloseDone, NotifySends,
         ResetTellsThread, ResetCloses, ResetClears, hardfile_open, hardfile_close, notify_send,
         hardfile_abortio, hardfile_beginio, DevStart, DevRead, DevLock, DevWork, DevAdded, Routine,
         DevReply, DevUnlock, DevDie, DevGone, SocketSignals, SocketSends
    <3> QED BY <2>1, <3>1 DEF ThreadTypes
  <2> QED BY <2>2, <2>3, <2>4
<1> QED BY <1>1, <1>2, <1>3, <1>4, <1>5, <1>6, <1>7 DEF ThreadTypes

\* What the programs on the Amiga, and the history, are told.
LEMMA AmigaTypesStay ==
  ASSUME TableTypes, DevTypes, ThreadTypes, AmigaTypes, Steps
  PROVE  AmigaTypes'
<1>1. owner' \in [Requests -> {"Amiga", "device"}]
  <2>1. \/ owner' = owner \/ owner' = [r \in Requests |-> "Amiga"]
        \/ \E r, who : who \in {"Amiga", "device"} /\ owner' = [owner EXCEPT ![r] = who]
    <3>1. CASE Deliver
      BY <3>1 DEF Deliver
    <3>2. CASE ~ Deliver
      BY <3>2 DEF Steps, vars, amigaVars, Interrupts, OpenDone, BeginDone, AbortDone, CloseDone, NotifySends,
         ResetAborts, ResetTellsThread, ResetCloses, ResetClears, hardfile_open, hardfile_close, Reset, notify_send,
         hardfile_abortio, hardfile_beginio, DevStart, DevRead, DevLock, DevWork, DevAdded, Routine,
         DevReply, DevUnlock, DevDie, DevGone, SocketSignals, SocketSends
    <3> QED BY <3>1, <3>2
  <2> QED BY <2>1 DEF AmigaTypes
<1>2. command' \in [Requests -> Commands]
  <2>1. command' = command \/ \E r \in Requests, c \in Commands : command' = [command EXCEPT ![r] = c]
    BY DEF Steps, vars, amigaVars, Interrupts, Deliver, OpenDone, BeginDone, AbortDone, CloseDone, NotifySends,
       ResetAborts, ResetTellsThread, ResetCloses, ResetClears, hardfile_open, hardfile_close, Reset, notify_send,
       hardfile_abortio, hardfile_beginio, DevStart, DevRead, DevLock, DevWork, DevAdded, Routine,
       DevReply, DevUnlock, DevDie, DevGone, SocketSignals, SocketSends
  <2> QED BY <2>1 DEF AmigaTypes
<1>3. boot' \in Nat
  <2>1. boot' = boot \/ boot' = boot + 1
    BY DEF Steps, vars, amigaVars, Interrupts, Deliver, OpenDone, BeginDone, AbortDone, CloseDone, NotifySends,
       ResetAborts, ResetTellsThread, ResetCloses, ResetClears, hardfile_open, hardfile_close, Reset, notify_send,
       hardfile_abortio, hardfile_beginio, DevStart, DevRead, DevLock, DevWork, DevAdded, Routine,
       DevReply, DevUnlock, DevDie, DevGone, SocketSignals, SocketSends
  <2> QED BY <2>1 DEF AmigaTypes
<1>4. unmarked' \subseteq Requests
  <2>1. CASE Routine("emu") \/ Routine("dev")
    <3>1. PICK t \in {"emu", "dev"} : Routine(t)
      BY <2>1
    <3>2. \/ unmarked' = unmarked \/ unmarked' = unmarked \cup Overwritten(t)
          \/ unmarked' = unmarked \ {access[t].req}
      BY <3>1 DEF Routine, Wait, Seek, Store, Mark
    <3>3. Overwritten(t) \subseteq Requests
      <4>1. access[t].slot \in Slots
        BY DEF TableTypes, Accesses
      <4>2. d_request[access[t].slot] \in Requests \cup {None}
        BY <4>1 DEF TableTypes
      <4> QED BY <4>2 DEF Overwritten
    <3> QED BY <3>2, <3>3 DEF AmigaTypes
  <2>2. CASE BeginDone
    <3>1. emu.req \in Requests
      BY <2>2 DEF BeginDone, Emu, ThreadTypes, EmuStates
    <3> QED BY <2>2, <3>1 DEF BeginDone, AmigaTypes
  <2>3. CASE ~ BeginDone /\ ~ Routine("emu") /\ ~ Routine("dev")
    <3>1. unmarked' = unmarked \/ unmarked' = {}
      BY <2>3 DEF Steps, vars, amigaVars, Interrupts, Deliver, OpenDone, AbortDone, CloseDone, NotifySends,
         ResetAborts, ResetTellsThread, ResetCloses, ResetClears, hardfile_open, hardfile_close, Reset, notify_send,
         hardfile_abortio, hardfile_beginio, DevStart, DevRead, DevLock, DevWork, DevAdded,
         DevReply, DevUnlock, DevDie, DevGone, SocketSignals, SocketSends
    <3> QED BY <3>1 DEF AmigaTypes
  <2> QED BY <2>1, <2>2, <2>3
<1>5. sent' \in Nat /\ signals' \in Nat
  <2>1. (sent' = sent \/ sent' = sent + 1) /\ (signals' = signals \/ signals' = signals + 1)
    BY DEF Steps, vars, counters, CountOther, Interrupts, Deliver, OpenDone, BeginDone, AbortDone, CloseDone, NotifySends,
       ResetAborts, ResetTellsThread, ResetCloses, ResetClears, hardfile_open, hardfile_close, Reset, notify_send,
       hardfile_abortio, hardfile_beginio, DevStart, DevRead, DevLock, DevWork, DevAdded, Routine,
       DevReply, DevUnlock, DevDie, DevGone, SocketSignals, SocketSends
  <2> QED BY <2>1 DEF AmigaTypes
<1>6. others' \in 0 .. MaxOther
  <2>1. others' = others \/ (others < MaxOther /\ others' = others + 1)
    BY DEF Steps, vars, counters, CountOther, Interrupts, Deliver, OpenDone, BeginDone, AbortDone, CloseDone, NotifySends,
       ResetAborts, ResetTellsThread, ResetCloses, ResetClears, hardfile_open, hardfile_close, Reset, notify_send,
       hardfile_abortio, hardfile_beginio, DevStart, DevRead, DevLock, DevWork, DevAdded, Routine,
       DevReply, DevUnlock, DevDie, DevGone, SocketSignals, SocketSends
  <2>2. \A n \in 0 .. MaxOther : n < MaxOther => n + 1 \in 0 .. MaxOther
    BY HardfileAssumption
  <2> QED BY <2>1, <2>2 DEF AmigaTypes
<1> QED BY <1>1, <1>2, <1>3, <1>4, <1>5, <1>6 DEF AmigaTypes

\* To the calls' machinery every step of the unit and of its surroundings is
\* one of the calls' steps.
LEMMA StepsAreCallSteps ==
  ASSUME Types, Steps
  PROVE  CallStep
<1> USE DEF CallStep
<1>1. CASE Interrupts \/ Deliver
  BY <1>1 DEF Interrupts, Deliver, Serve
<1>2. CASE NotifySends \/ SocketSends \/ Send(Device)
  BY <1>2, ThreeSenders DEF NotifySends, SocketSends
<1>3. CASE notify_send
  <2>1. Begin(Notifier, Call("Notify", signals))
    BY <1>3 DEF notify_send, Begin, Amiga, Types, Callers, n2aVars
  <2>2. Call("Notify", signals) \in NativeCall
    BY DEF Call, NativeCall, Types, Lives, AmigaTypes
  <2> QED BY <2>1, <2>2, ThreeSenders
<1>4. CASE SocketSignals
  <2>1. Begin(Socket, Call("Signal", signals))
    BY <1>4 DEF SocketSignals, Begin
  <2>2. Call("Signal", signals) \in NativeCall
    BY DEF Call, NativeCall, Types, Lives, AmigaTypes
  <2> QED BY <2>1, <2>2, ThreeSenders
<1>5. CASE DevReply
  <2>1. Begin(Device, Call("ReplyMsg", dev.req))
    BY <1>5 DEF DevReply, Dev, Begin, Types, Callers
  <2>2. Call("ReplyMsg", dev.req) \in NativeCall
    BY <1>5 DEF Call, NativeCall, DevReply, Dev, Types, Lives, DevTypes, AtWork
  <2> QED BY <2>1, <2>2, ThreeSenders
<1>6. CASE Reset
  BY <1>6 DEF Reset
<1>7. CASE ~ (Interrupts \/ Deliver \/ NotifySends \/ SocketSends \/ Send(Device) \/ notify_send \/ SocketSignals
              \/ DevReply \/ Reset)
  BY <1>7 DEF Steps, vars, OpenDone, BeginDone, AbortDone, CloseDone, ResetAborts, ResetTellsThread, ResetCloses, ResetClears,
     hardfile_open, hardfile_close, hardfile_abortio, hardfile_beginio, DevStart, DevRead, DevLock,
     DevWork, DevAdded, Routine, DevUnlock, DevDie, DevGone
<1> QED BY <1>1, <1>2, <1>3, <1>4, <1>5, <1>6, <1>7

\* A sender's step changes its own call only; the others' are not begun either.
LEMMA OtherCalls ==
  ASSUME NEW s \in Senders, NEW t \in Senders \ {s}, CallTypes, Send(s) \/ \E c : Begin(s, c)
  PROVE  call'[t] = call[t]
BY DEF Send, LockCalls, WriteEntry, RequestInt, UnlockCalls, CallAt, Begin, BeginCall, CallTypes

\* Who may be making a call.
LEMMA CallersStay ==
  ASSUME Types, Steps
  PROVE  Callers'
<1> USE DEF Callers, Idle
<1>0. CallTypes /\ DevTypes /\ ThreadTypes /\ Life /\ Callers
  BY DEF Types, Lives, CallInv
<1>1. CASE Interrupts \/ Deliver \/ Reset
  <2>1. call' = call /\ dev' = dev
    BY <1>1 DEF Interrupts, Deliver, Reset, Hsync, EnterServer, ReadEntry, Take, NothingLeft, ExitServer,
       MakeCall, N2AReset, senderVars
  <2>2. emu.at = "cpu" /\ emu'.at # "notify"
    BY <1>0, <1>1 DEF Interrupts, Deliver, Reset, At, Round
  <2> QED BY <1>0, <2>1, <2>2
<1>2. CASE NotifySends
  <2>1. call'[Device] = call[Device] /\ dev' = dev
    BY <1>0, <1>2, ThreeSenders, OtherCalls DEF NotifySends
  <2>2. emu.at = "notify" /\ emu' = IF call'[Notifier].at = "idle" THEN At("cpu", None) ELSE emu
    BY <1>2 DEF NotifySends
  <2> QED BY <1>0, <2>1, <2>2 DEF At
<1>3. CASE SocketSends \/ SocketSignals
  <2>1. Send(Socket) \/ \E c : Begin(Socket, c)
    BY <1>3 DEF SocketSends, SocketSignals, Begin
  <2>2. call'[Device] = call[Device] /\ call'[Notifier] = call[Notifier]
    BY <1>0, <2>1, ThreeSenders, OtherCalls
  <2>3. dev' = dev /\ emu' = emu
    BY <1>3 DEF SocketSends, SocketSignals
  <2> QED BY <1>0, <2>2, <2>3
<1>4. CASE Send(Device) /\ UNCHANGED <<privdata, change_sem, dev, leaving, emu, amigaVars, counters>>
  <2>1. call'[Notifier] = call[Notifier]
    BY <1>0, <1>4, ThreeSenders, OtherCalls
  <2>2. dev.at = "sending"
    <3>1. call[Device].at # "idle"
      BY <1>4 DEF Send, LockCalls, WriteEntry, RequestInt, UnlockCalls, CallAt
    <3> QED BY <1>0, <3>1
  <2> QED BY <1>0, <1>4, <2>1, <2>2
<1>5. CASE DevReply
  <2>1. dev.at = "release" /\ dev' = [dev EXCEPT !.at = "sending"] /\ emu' = emu
    BY <1>5 DEF DevReply, Dev
  <2>2. Begin(Device, Call("ReplyMsg", dev.req))
    BY <1>0, <1>5, <2>1 DEF DevReply, Begin
  <2>3. call'[Notifier] = call[Notifier]
    BY <1>0, <2>2, ThreeSenders, OtherCalls
  <2>4. dev'.at = "sending"
    BY <1>0, <2>1, DevMoves DEF DevPC
  <2> QED BY <1>0, <2>1, <2>3, <2>4
<1>6. CASE notify_send
  <2>1. emu' = At("notify", None) /\ dev' = dev /\ emu.at = "cpu"
    BY <1>6 DEF notify_send, Amiga
  <2>2. Begin(Notifier, Call("Notify", signals))
    BY <1>0, <1>6, <2>1 DEF notify_send, Begin
  <2>3. call'[Device] = call[Device]
    BY <1>0, <2>2, ThreeSenders, OtherCalls
  <2>4. call'[Notifier].at = "lock"
    BY <1>0, <2>2, ThreeSenders DEF Begin, BeginCall, CallTypes
  <2> QED BY <1>0, <2>1, <2>3, <2>4 DEF At
<1>7. CASE DevStart \/ DevRead \/ DevLock \/ DevWork \/ DevAdded \/ DevUnlock \/ DevDie
  <2>1. call' = call /\ emu' = emu
    BY <1>7 DEF DevStart, DevRead, DevLock, DevWork, DevAdded, DevUnlock, DevDie, n2aVars, senderVars
  <2>2. Idle(Device)
    BY <1>0, <1>7 DEF DevStart, DevRead, DevLock, DevWork, DevAdded, DevUnlock, DevDie, Dev
  <2> QED BY <1>0, <2>1, <2>2
<1>8. CASE hardfile_open
  <2>1. call' = call /\ (dev' = dev \/ dev' = At("start", Death)) /\ (emu' = emu \/ emu' = At("open", None)) /\ emu.at = "cpu"
    BY <1>8 DEF hardfile_open, n2aVars, senderVars, Amiga
  <2>2. Idle(Device) \/ dev' = dev
    <3>1. thread_running = 1 => dev' = dev
      BY <1>8 DEF hardfile_open
    <3>2. thread_running # 1 => dev.at = "none"
      BY <1>0, <2>1 DEF Life, Gone, Alive
    <3> QED BY <1>0, <3>1, <3>2
  <2> QED BY <1>0, <2>1, <2>2 DEF At
<1>9. CASE \/ OpenDone \/ BeginDone \/ AbortDone \/ CloseDone \/ ResetAborts \/ ResetTellsThread \/ ResetCloses
           \/ ResetClears \/ hardfile_close \/ DevGone \/ UNCHANGED vars \/ Routine("emu") \/ Routine("dev")
           \/ (\E r \in Requests : hardfile_abortio(r))
           \/ (\E r \in Requests, c \in Commands : hardfile_beginio(r, c))
  <2>1. call' = call /\ dev' = dev
    BY <1>9 DEF OpenDone, BeginDone, AbortDone, CloseDone, ResetAborts, ResetTellsThread, ResetCloses, ResetClears,
       hardfile_close, DevGone, Routine, vars, hardfile_abortio, hardfile_beginio, n2aVars, senderVars
  <2>2. \/ emu' = emu
        \/ /\ emu.at # "notify"
           /\ \/ \E where \in EmuPC \ {"notify"} : \E r : emu' = At(where, r)
              \/ \E n : emu' = [at |-> "reset", req |-> None, round |-> n]
    BY <1>9 DEF OpenDone, BeginDone, AbortDone, CloseDone, ResetAborts, ResetTellsThread, ResetCloses, ResetClears,
       hardfile_close, DevGone, Routine, Round, vars, hardfile_abortio, hardfile_beginio, Emu, EmuPC, Amiga
  <2>3. emu'.at = "notify" <=> emu.at = "notify"
    BY <2>2 DEF At
  <2> QED BY <1>0, <2>1, <2>3
<1> QED BY <1>1, <1>2, <1>3, <1>4, <1>5, <1>6, <1>7, <1>8, <1>9 DEF Steps

-----------------------------------------------------------------------------
(* The unit's thread lives from an open to the close that waits for it.    *)

\* The death message in a pipe: sent last, read last.
LEMMA ToldIsLast ==
  ASSUME NEW S, NEW q \in Seq(S)
  PROVE  /\ q = <<>> => Untold(q)
         /\ \A x \in S : Untold(q) /\ x # Death => Untold(Append(q, x))
         /\ Death \in S /\ Untold(q) => Told(Append(q, Death))
         /\ q # <<>> /\ Untold(q) => Head(q) # Death /\ Untold(Tail(q))
         /\ q # <<>> /\ Told(q) => \/ Head(q) = Death /\ Tail(q) = <<>>
                                   \/ Head(q) # Death /\ Told(Tail(q))
<1>1. Len(q) \in Nat
  OBVIOUS
<1>2. q = <<>> => Untold(q)
  BY DEF Untold
<1>3. ASSUME NEW x \in S PROVE /\ Untold(q) /\ x # Death => Untold(Append(q, x))
                               /\ Untold(q) /\ x = Death => Told(Append(q, x))
  <2> DEFINE a == Append(q, x)
  <2>1. a # <<>> /\ Len(a) = Len(q) + 1 /\ a[Len(q) + 1] = x /\ \A i \in 1 .. Len(q) : a[i] = q[i]
    BY AppendProperties
  <2> HIDE DEF a
  <2>2. Untold(q) /\ x # Death => Untold(a)
    BY <1>1, <2>1 DEF Untold
  <2>3. Untold(q) /\ x = Death => Told(a)
    BY <1>1, <2>1 DEF Untold, Told
  <2> QED BY <2>2, <2>3 DEF a
<1>4. ASSUME q # <<>>
      PROVE  /\ Untold(q) => Head(q) # Death /\ Untold(Tail(q))
             /\ Told(q) => \/ Head(q) = Death /\ Tail(q) = <<>>
                           \/ Head(q) # Death /\ Told(Tail(q))
  <2> DEFINE t == Tail(q)
  <2>1. t \in Seq(S) /\ Head(q) = q[1] /\ Len(t) = Len(q) - 1 /\ \A i \in 1 .. Len(t) : t[i] = q[i + 1]
    BY <1>4, HeadTailProperties
  <2>2. Len(q) >= 1
    BY <1>1, <1>4
  <2> HIDE DEF t
  <2>3. Untold(q) => Head(q) # Death /\ Untold(t)
    BY <1>1, <2>1, <2>2 DEF Untold
  <2>4. Told(q) /\ Len(q) = 1 => Head(q) = Death /\ t = <<>>
    BY <2>1 DEF Told
  <2>5. Told(q) /\ Len(q) # 1 => Head(q) # Death /\ Told(t)
    <3> SUFFICES ASSUME Told(q), Len(q) # 1 PROVE Head(q) # Death /\ Told(t)
      OBVIOUS
    <3> DEFINE n == Len(q)
    <3>1. n \in Nat /\ n > 1 /\ Len(t) = n - 1
      BY <1>1, <2>1, <2>2
    <3>2. q[n] = Death /\ \A i \in 1 .. (n - 1) : q[i] # Death
      BY DEF Told
    <3> HIDE DEF n
    <3>3. 1 \in 1 .. (n - 1) /\ (n - 1) \in 1 .. Len(t) /\ (n - 1) + 1 = n
      BY <3>1
    <3>4. Head(q) # Death /\ t[n - 1] = Death
      BY <2>1, <3>2, <3>3
    <3>5. ASSUME NEW i \in 1 .. (Len(t) - 1) PROVE t[i] # Death
      <4>1. i \in 1 .. Len(t) /\ i + 1 \in 1 .. (n - 1)
        BY <3>1
      <4> QED BY <2>1, <3>2, <4>1
    <3>6. t # <<>>
      BY <3>1, <2>1
    <3> QED BY <3>1, <3>4, <3>5, <3>6 DEF Told
  <2> QED BY <2>3, <2>4, <2>5 DEF t
<1> QED BY <1>2, <1>3, <1>4

\* What Life is about.
lifeVars == <<requests, opencount, thread_running, sync_sem, dev>>

\* Starting, serving, dying and being gone follow each other, as the emulator
\* thread's opens, closes and resets go.
LEMMA LifeStays ==
  ASSUME Lives, Steps
  PROVE  Life'
<1>0. DevTypes /\ ThreadTypes /\ AmigaTypes /\ Life /\ DevTypes' /\ ThreadTypes'
  BY DevTypesStay, ThreadTypesStay DEF Lives
<1> USE DEF EmuPC
<1>1. CASE \/ Interrupts \/ Deliver \/ DevGone \/ SocketSignals \/ SocketSends \/ UNCHANGED vars
           \/ (Send(Device) /\ UNCHANGED <<privdata, change_sem, dev, leaving, emu, amigaVars, counters>>)
           \/ notify_send \/ NotifySends \/ AbortDone \/ (\E r \in Requests : hardfile_abortio(r))
           \/ (\E r \in Requests, c \in Commands : hardfile_beginio(r, c)) \/ ResetAborts
           \/ Routine("emu") \/ Routine("dev")
  <2>1. UNCHANGED lifeVars
    BY <1>1 DEF lifeVars, vars, Interrupts, Deliver, DevGone, SocketSignals, SocketSends, notify_send, NotifySends,
       AbortDone, hardfile_abortio, hardfile_beginio, ResetAborts, Routine, privdata
  <2>2. \/ emu' = emu
        \/ /\ emu.at \in {"cpu", "notify", "abort"} /\ emu'.at \in {"cpu", "notify", "begin", "abort"}
           /\ emu'.at \in {"begin", "abort"} => opencount > 0
        \/ emu.at = "reset" /\ emu'.at = "reset"
    BY <1>1 DEF vars, Interrupts, Deliver, DevGone, SocketSignals, SocketSends, notify_send, NotifySends,
       AbortDone, hardfile_abortio, hardfile_beginio, ResetAborts, Routine, Round, Amiga, At, Emu
  <2>3. emu' = emu => Life'
    BY <1>0, <2>1 DEF lifeVars, Life, Starting, Dying, Gone, Alive, Living
  <2>4. CASE emu' # emu
    <3>1. IF opencount > 0 THEN Alive ELSE Gone /\ sync_sem = 0
      BY <1>0, <2>2, <2>4 DEF Life
    <3>2. (IF opencount > 0 THEN Alive ELSE Gone /\ sync_sem = 0)'
      BY <2>1, <3>1 DEF lifeVars, Dying, Gone, Alive, Living
    <3>3. opencount' = opencount
      BY <2>1 DEF lifeVars
    <3>4. emu'.at = "reset" => opencount > 0
      BY <1>0, <2>2, <2>4 DEF Life
    <3> QED BY <2>2, <2>4, <3>2, <3>3, <3>4 DEF Life
  <2> QED BY <2>3, <2>4
<1>2. CASE (DevLock /\ dev.req # Death) \/ DevWork \/ DevAdded \/ DevReply \/ DevUnlock
  <2>1. UNCHANGED <<requests, opencount, thread_running, sync_sem, emu>>
    BY <1>2 DEF DevLock, DevWork, DevAdded, DevReply, DevUnlock, privdata, Dev
  <2>2. dev.at \in Busy
    BY <1>2 DEF Busy, DevLock, DevWork, DevAdded, DevReply, DevUnlock, Dev
  <2>3. dev.at # "unlock" /\ dev.at # "sending" => dev'.at \in Busy /\ dev'.req = dev.req
    <3>1. CASE DevLock /\ dev.req # Death
      BY <1>0, <3>1, DevMoves DEF DevLock, Dev, Busy, DevPC
    <3>2. CASE DevWork
      BY <1>0, <3>2, DevMoves DEF DevWork, Busy, DevPC
    <3>3. CASE DevAdded
      BY <1>0, <3>3, DevMoves DEF DevAdded, Busy, DevPC
    <3>5. CASE DevReply
      BY <1>0, <3>5, DevMoves DEF DevReply, Dev, Busy, DevPC
    <3>6. CASE DevUnlock
      BY <3>6 DEF DevUnlock
    <3> QED BY ONLY <1>2, <3>1, <3>2, <3>3, <3>5, <3>6
  <2>4. dev.at \in {"unlock", "sending"} => dev'.at = "read"
    BY <1>2 DEF DevLock, DevWork, DevAdded, DevReply, DevUnlock, Dev, At
  <2>5. Living => Living'
    BY <2>2, <2>3, <2>4 DEF Living, Busy
  <2>6. dev.at \in {"lock", "die"} => dev.req # Death
    BY <1>2 DEF DevLock, DevWork, DevAdded, DevReply, DevUnlock, Dev
  <2>7. ~ Starting /\ ~ Gone /\ (Dying => Living /\ Told(requests))
    BY <2>2, <2>6 DEF Starting, Gone, Dying, Busy
  <2>8. (Dying => Dying') /\ (Alive => Alive')
    BY <2>1, <2>5, <2>7 DEF Dying, Alive
  <2> QED BY <1>0, <2>1, <2>7, <2>8 DEF Life
<1>3. CASE DevLock /\ dev.req = Death
  <2>1. dev.at = "lock" /\ dev' = [dev EXCEPT !.at = "die"] /\ dev.req = Death
    BY <1>3 DEF DevLock, Dev
  <2>2. dev'.at = "die" /\ dev'.req = Death
    BY <1>0, <2>1, DevMoves DEF DevPC
  <2>3. UNCHANGED <<requests, opencount, thread_running, sync_sem, emu>>
    BY <1>3 DEF DevLock, privdata
  <2>4. ~ Starting /\ ~ Gone /\ ~ Alive /\ ~ Living
    BY <2>1 DEF Starting, Gone, Alive, Living
  <2>5. Dying => Dying'
    BY <2>2, <2>3, <2>4 DEF Dying
  <2> QED BY <1>0, <2>3, <2>4, <2>5 DEF Life
<1>4. CASE DevStart
  <2>1. /\ dev.at = "start" /\ dev' = [dev EXCEPT !.at = "read"] /\ thread_running' = 1 /\ sync_sem' = sync_sem + 1
        /\ UNCHANGED <<requests, opencount, emu>>
    BY <1>4 DEF DevStart, Dev
  <2>2. dev'.at = "read"
    BY <1>0, <2>1, DevMoves DEF DevPC
  <2>3. ~ Gone /\ ~ Alive /\ ~ Dying
    BY <2>1 DEF Gone, Alive, Dying, Living, Busy
  <2>4. Starting => Starting'
    BY <2>1, <2>2 DEF Starting
  <2> QED BY <1>0, <2>1, <2>3, <2>4 DEF Life
<1>5. CASE DevRead
  <2>1. /\ dev.at = "read" /\ requests # <<>> /\ dev' = At("lock", Head(requests)) /\ requests' = Tail(requests)
        /\ UNCHANGED <<opencount, thread_running, sync_sem, emu>>
    BY <1>5 DEF DevRead
  <2>2. dev'.at = "lock" /\ dev'.req = Head(requests)
    BY <2>1 DEF At
  <2>3. /\ Untold(requests) => Head(requests) # Death /\ Untold(Tail(requests))
        /\ Told(requests) => \/ Head(requests) = Death /\ Tail(requests) = <<>>
                             \/ Head(requests) # Death /\ Told(Tail(requests))
    BY <1>0, <2>1, ToldIsLast DEF ThreadTypes
  <2>4. ~ Starting /\ ~ Gone
    BY <2>1 DEF Starting, Gone
  <2>5. Alive => Alive'
    BY <2>1, <2>2, <2>3 DEF Alive, Living, Busy
  <2>6. Dying => Dying'
    BY <2>1, <2>2, <2>3 DEF Dying, Living, Busy
  <2> QED BY <1>0, <2>1, <2>4, <2>5, <2>6 DEF Life
<1>6. CASE DevDie
  <2>1. /\ dev.at = "die" /\ thread_running' = 0 /\ sync_sem' = sync_sem + 1 /\ dev' = At("none", Death)
        /\ UNCHANGED <<requests, opencount, emu>>
    BY <1>6 DEF DevDie
  <2>2. ~ Starting /\ ~ Gone /\ ~ Alive
    BY <2>1 DEF Starting, Gone, Alive, Living, Busy
  <2>3. Dying => Gone' /\ sync_sem' = 1
    BY <2>1 DEF Dying, Gone, At, Living, Busy
  <2> QED BY <1>0, <2>1, <2>2, <2>3 DEF Life
<1>7. CASE hardfile_open
  <2>1. /\ emu.at = "cpu"
        /\ IF thread_running = 1
             THEN opencount' = opencount + 1 /\ UNCHANGED <<requests, thread_running, sync_sem, dev, emu>>
             ELSE /\ requests' = <<>> /\ sync_sem' = 0 /\ opencount' = 0
                  /\ dev' = At("start", Death) /\ emu' = At("open", None) /\ UNCHANGED thread_running
    BY <1>7 DEF hardfile_open, Amiga
  <2>2. IF opencount > 0 THEN Alive ELSE Gone /\ sync_sem = 0
    BY <1>0, <2>1 DEF Life
  <2>3. CASE thread_running = 1
    <3>1. Alive /\ opencount > 0 /\ opencount' > 0
      BY <1>0, <2>1, <2>2, <2>3 DEF Gone, ThreadTypes
    <3>2. Alive' /\ emu'.at = "cpu"
      BY <2>1, <2>3, <3>1 DEF Alive, Living
    <3> QED BY <3>1, <3>2 DEF Life
  <2>4. CASE thread_running # 1
    <3>1. thread_running = 0
      BY <1>0, <2>4 DEF ThreadTypes
    <3>2. Starting' /\ opencount' = 0 /\ emu'.at = "open"
      BY <2>1, <2>4, <3>1 DEF Starting, At
    <3> QED BY <3>2 DEF Life
  <2> QED BY <2>3, <2>4
<1>8. CASE OpenDone
  <2>1. /\ emu.at = "open" /\ emu'.at = "cpu" /\ sync_sem > 0 /\ sync_sem' = sync_sem - 1 /\ opencount' = opencount + 1
        /\ UNCHANGED <<requests, thread_running, dev>>
    BY <1>8 DEF OpenDone, BeginDone, Emu, At
  <2>2. Starting /\ opencount = 0
    BY <1>0, <2>1 DEF Life
  <2>3. dev.at = "read" /\ thread_running = 1 /\ sync_sem = 1 /\ requests = <<>>
    BY <2>1, <2>2 DEF Starting
  <2>4. Untold(requests)
    BY <1>0, <2>3, ToldIsLast DEF ThreadTypes
  <2>5. Alive' /\ opencount' > 0
    BY <2>1, <2>2, <2>3, <2>4 DEF Alive, Living
  <2> QED BY <2>1, <2>5 DEF Life
<1>9. CASE BeginDone
  <2>1. requests' = Append(requests, [req |-> emu.req, boot |-> boot]) /\ emu.at = "begin" /\ emu'.at = "cpu"
    BY <1>9 DEF BeginDone, Emu, At
  <2>2. emu.req \in Requests /\ opencount > 0 /\ UNCHANGED <<opencount, thread_running, sync_sem, dev>>
    BY <1>0, <1>9, <2>1 DEF BeginDone, Life, ThreadTypes, EmuStates
  <2>3. Alive
    BY <1>0, <2>1, <2>2 DEF Life
  <2>4. [req |-> emu.req, boot |-> boot] # Death /\ [req |-> emu.req, boot |-> boot] \in IoReq
    BY <1>0, <2>2, HardfileAssumption DEF Death, IoReq, AmigaTypes
  <2>5. Untold(requests')
    <3>1. requests \in Seq(IoReq \cup {Death})
      BY <1>0 DEF ThreadTypes
    <3> QED BY <2>1, <2>3, <2>4, <3>1, ToldIsLast DEF Alive
  <2>6. Alive'
    BY <2>2, <2>3, <2>5 DEF Alive, Living
  <2> QED BY <2>1, <2>2, <2>6 DEF Life
<1>10. CASE hardfile_close
  <2>1. /\ emu.at = "cpu" /\ opencount > 0 /\ opencount' = opencount - 1
        /\ IF opencount = 1 THEN requests' = Append(requests, Death) /\ emu' = At("close", None)
                            ELSE UNCHANGED <<requests, emu>>
        /\ UNCHANGED <<thread_running, sync_sem, dev>>
    BY <1>10 DEF hardfile_close, Amiga
  <2>2. Alive
    BY <1>0, <2>1 DEF Life
  <2>3. CASE opencount = 1
    <3>1. Told(requests')
      <4>1. requests \in Seq(IoReq \cup {Death}) /\ Untold(requests) /\ requests' = Append(requests, Death)
        BY <1>0, <2>1, <2>2, <2>3 DEF ThreadTypes, Alive
      <4> QED BY <4>1, ToldIsLast
    <3>2. Dying' /\ opencount' = 0 /\ emu'.at = "close"
      BY <2>1, <2>2, <2>3, <3>1 DEF Dying, Alive, Living, At
    <3> QED BY <3>2 DEF Life
  <2>4. CASE opencount # 1
    <3>1. Alive' /\ opencount' > 0 /\ emu'.at = "cpu"
      BY <1>0, <2>1, <2>2, <2>4 DEF Alive, Living, ThreadTypes
    <3> QED BY <3>1 DEF Life
  <2> QED BY <2>3, <2>4
<1>11. CASE CloseDone \/ ResetCloses
  <2>1. /\ emu.at \in {"close", "reset_close"} /\ sync_sem > 0 /\ sync_sem' = sync_sem - 1
        /\ emu'.at = IF emu.at = "close" THEN "cpu" ELSE "reset_clear"
        /\ UNCHANGED <<requests, opencount, thread_running, dev>>
    BY <1>11 DEF CloseDone, ResetTellsThread, ResetCloses, Emu, At
  <2>2. Gone /\ sync_sem = 1 /\ (emu.at = "close" => opencount = 0)
    BY <1>0, <2>1 DEF Life, Dying
  <2>3. Gone' /\ sync_sem' = 0
    BY <2>1, <2>2 DEF Gone
  <2> QED BY <2>1, <2>2, <2>3 DEF Life
<1>12. CASE Reset
  <2>1. /\ emu.at = "cpu" /\ emu'.at = IF opencount = 0 THEN "reset_clear" ELSE "reset"
        /\ UNCHANGED <<requests, opencount, thread_running, sync_sem, dev>>
    BY <1>12 DEF Reset, At, Round, privdata
  <2>2. IF opencount > 0 THEN Alive ELSE Gone /\ sync_sem = 0
    BY <1>0, <2>1 DEF Life
  <2>3. opencount # 0 => opencount > 0
    BY <1>0 DEF ThreadTypes
  <2>4. (Alive => Alive') /\ (Gone => Gone')
    BY <2>1 DEF Alive, Gone, Living
  <2> QED BY <2>1, <2>2, <2>3, <2>4 DEF Life
<1>13. CASE ResetTellsThread
  <2>1. /\ emu.at = "reset" /\ emu'.at = "reset_close" /\ requests' = Append(requests, Death)
        /\ UNCHANGED <<opencount, thread_running, sync_sem, dev>>
    BY <1>13 DEF ResetTellsThread, At
  <2>2. Alive
    BY <1>0, <2>1 DEF Life
  <2>3. Told(requests')
    <3>1. requests \in Seq(IoReq \cup {Death}) /\ Untold(requests) /\ requests' = Append(requests, Death)
      BY <1>0, <2>1, <2>2 DEF ThreadTypes, Alive
    <3> QED BY <3>1, ToldIsLast
  <2>4. Dying'
    BY <2>1, <2>2, <2>3 DEF Dying, Alive, Living
  <2> QED BY <2>1, <2>4 DEF Life
<1>14. CASE ResetClears
  <2>1. /\ emu.at = "reset_clear" /\ emu'.at = "cpu" /\ requests' = <<>> /\ opencount' = 0 /\ thread_running' = 0
        /\ sync_sem' = 0 /\ dev' = dev
    BY <1>14 DEF ResetClears, Emu, At
  <2>2. Gone'
    BY <1>0, <2>1 DEF Life, Gone
  <2> QED BY <2>1, <2>2 DEF Life
<1> QED BY <1>1, <1>2, <1>3, <1>4, <1>5, <1>6, <1>7, <1>8, <1>9, <1>10, <1>11, <1>12, <1>13, <1>14 DEF Steps

\* change_sem: who works has it, and who leaves has it still.
LEMMA GuardedStays ==
  ASSUME Lives, Steps
  PROVE  Guarded'
<1>0. DevTypes /\ ThreadTypes /\ Life /\ Guarded
  BY DEF Lives
<1>1. leaving \in Nat /\ change_sem \in {0, 1}
  BY <1>0 DEF ThreadTypes
<1>2. CASE DevLock
  <2>1. dev.at = "lock" /\ dev'.at \in {"die", "work"}
    BY <1>0, <1>2, DevMoves DEF DevLock, Dev, DevPC
  <2>2. change_sem = 1 /\ change_sem' = 0 /\ leaving' = leaving
    BY <1>2 DEF DevLock
  <2> QED BY <1>0, <1>1, <2>1, <2>2 DEF Guarded, Doing
<1>3. CASE DevWork \/ DevAdded \/ DevReply
  <2>1. dev.at \in Doing /\ dev'.at \in Doing
    <3>1. CASE DevWork
      BY <1>0, <3>1, DevMoves DEF DevWork, Doing, DevPC
    <3>2. CASE DevAdded
      BY <1>0, <3>2, DevMoves DEF DevAdded, Doing, DevPC
    <3>4. CASE DevReply
      BY <1>0, <3>4, DevMoves DEF DevReply, Dev, Doing, DevPC
    <3> QED BY ONLY <1>3, <3>1, <3>2, <3>4
  <2>2. UNCHANGED <<change_sem, leaving>>
    BY <1>3 DEF DevWork, DevAdded, DevReply
  <2> QED BY <1>0, <2>1, <2>2 DEF Guarded
<1>4. CASE DevUnlock
  <2>1. dev.at \in Doing /\ dev'.at = "read" /\ change_sem' = 1 /\ leaving' = leaving
    BY <1>4 DEF DevUnlock, Doing, At
  <2> QED BY <1>0, <1>1, <2>1 DEF Guarded, Doing
<1>5. CASE DevDie
  <2>1. dev.at = "die" /\ dev'.at = "none" /\ leaving' = leaving + 1 /\ change_sem' = change_sem
    BY <1>5 DEF DevDie, At
  <2> QED BY <1>0, <1>1, <2>1 DEF Guarded, Doing
<1>6. CASE DevGone
  <2>1. leaving > 0 /\ leaving' = leaving - 1 /\ change_sem' = 1 /\ dev' = dev
    BY <1>6 DEF DevGone
  <2> QED BY <1>0, <1>1, <2>1 DEF Guarded
<1>7. CASE DevStart \/ DevRead
  <2>1. dev.at \notin Doing /\ dev'.at \notin Doing
    BY <1>0, <1>7, DevMoves DEF DevStart, DevRead, Dev, DevPC, At, Doing
  <2>2. UNCHANGED <<change_sem, leaving>>
    BY <1>7 DEF DevStart, DevRead
  <2> QED BY <1>0, <2>1, <2>2 DEF Guarded
<1>8. CASE hardfile_open
  <2>1. thread_running # 1 => dev.at = "none"
    BY <1>0, <1>8 DEF Life, Gone, Alive, hardfile_open, Amiga
  <2>2. dev' = dev \/ (dev'.at = "start" /\ dev.at = "none")
    BY <1>8, <2>1 DEF hardfile_open, At
  <2>3. UNCHANGED <<change_sem, leaving>>
    BY <1>8 DEF hardfile_open
  <2> QED BY <1>0, <2>2, <2>3 DEF Guarded, Doing
<1>9. CASE ~ DevStep /\ ~ hardfile_open /\ ~ DevGone
  <2>1. dev' = dev
    BY <1>9, DevAlone
  <2>2. UNCHANGED <<change_sem, leaving>>
    BY <1>9 DEF DevStep, Steps, vars, Interrupts, Deliver, OpenDone, BeginDone, AbortDone, CloseDone, NotifySends,
       ResetAborts, ResetTellsThread, ResetCloses, ResetClears, hardfile_close, Reset, notify_send, hardfile_abortio,
       hardfile_beginio, Routine, SocketSignals, SocketSends
  <2> QED BY <1>0, <2>1, <2>2 DEF Guarded
<1> QED BY <1>2, <1>3, <1>4, <1>5, <1>6, <1>7, <1>8, <1>9 DEF DevStep

\* Each open is counted.
LEMMA OpensStays ==
  ASSUME Lives, Steps
  PROVE  Opens'
<1>0. ThreadTypes /\ AmigaTypes /\ Life /\ Opens
  BY DEF Lives
<1>1. opencount \in Nat /\ others \in Nat
  BY <1>0, HardfileAssumption DEF ThreadTypes, AmigaTypes
<1>2. CASE hardfile_open
  <2>1. /\ others' = others + 1 /\ emu.at = "cpu"
        /\ (opencount' = opencount + 1 /\ emu' = emu) \/ (opencount' = 0 /\ emu'.at = "open")
    BY <1>2 DEF hardfile_open, CountOther, Amiga, At
  <2> QED BY <1>0, <1>1, <2>1 DEF Opens
<1>3. CASE OpenDone
  <2>1. others' = others /\ emu.at = "open" /\ emu'.at = "cpu" /\ opencount' = opencount + 1
    BY <1>3 DEF OpenDone, BeginDone, Emu, At, counters
  <2> QED BY <1>0, <1>1, <2>1 DEF Opens
<1>4. CASE ~ hardfile_open /\ ~ OpenDone
  <2>1. others' = others \/ others' = others + 1
    BY <1>4 DEF Steps, vars, counters, CountOther, Interrupts, Deliver, BeginDone, AbortDone, CloseDone, NotifySends,
       ResetAborts, ResetTellsThread, ResetCloses, ResetClears, hardfile_close, Reset, notify_send,
       hardfile_abortio, hardfile_beginio, DevStart, DevRead, DevLock, DevWork, DevAdded, Routine,
       DevReply, DevUnlock, DevDie, DevGone, SocketSignals, SocketSends
  <2>2. opencount' = opencount \/ (opencount > 0 /\ opencount' = opencount - 1) \/ opencount' = 0
    BY <1>4 DEF Steps, vars, privdata, Interrupts, Deliver, BeginDone, AbortDone, CloseDone, NotifySends,
       ResetAborts, ResetTellsThread, ResetCloses, ResetClears, hardfile_close, Reset, notify_send, Amiga,
       hardfile_abortio, hardfile_beginio, DevStart, DevRead, DevLock, DevWork, DevAdded, Routine,
       DevReply, DevUnlock, DevDie, DevGone, SocketSignals, SocketSends
  <2>3. \/ emu' = emu \/ \E where \in EmuPC \ {"open"} : \E r : emu' = At(where, r)
        \/ \E n : emu' = [at |-> "reset", req |-> None, round |-> n]
    BY <1>4 DEF Emu, EmuPC, Round, Steps, vars, Interrupts, Deliver, BeginDone, AbortDone, CloseDone, NotifySends,
       ResetAborts, ResetTellsThread, ResetCloses, ResetClears, hardfile_close, Reset, notify_send,
       hardfile_abortio, hardfile_beginio, DevStart, DevRead, DevLock, DevWork, DevAdded, Routine,
       DevReply, DevUnlock, DevDie, DevGone, SocketSignals, SocketSends
  <2>4. emu'.at = "open" => emu.at = "open"
    BY <2>3 DEF At
  <2> QED BY <1>0, <1>1, <2>1, <2>2, <2>4 DEF Opens
<1> QED BY <1>2, <1>3, <1>4

-----------------------------------------------------------------------------
(* Calls are whole, whatever the unit does.                                *)

\* Every step keeps the types, the unit's life and the calls' shape.
LEMMA StepsKeepTypes ==
  ASSUME Types, Steps
  PROVE  Types'
<1>1. CallInv'
  BY StepsAreCallSteps, CallsStay DEF Types
<1>2. Lives'
  BY TableTypesStay, DevTypesStay, ThreadTypesStay, AmigaTypesStay, LifeStays, GuardedStays, OpensStays
  DEF Types, Lives
<1>3. Callers'
  BY CallersStay
<1> QED BY <1>1, <1>2, <1>3 DEF Types

\* The machine starts with no unit open and no call under way.
LEMMA TypesInit == Init => Types
<1> SUFFICES ASSUME Init PROVE Types
  OBVIOUS
<1>1. CallInv
  <2>1. <<>> \in Seq(Entry) /\ Len(<<>>) = 0 /\ <<>> \o <<>> = <<>>
    BY EmptySeq, ConcatEmptySeq
  <2>2. /\ native2amiga_pending = <<>> /\ n2asem = None /\ cut_short = FALSE
        /\ call = [s \in Senders |-> [at |-> "idle", left |-> <<>>]]
        /\ server = [at |-> "idle", got |-> <<>>]
    BY DEF Init, N2AInit, NotCalling
  <2>3. CallTypes
    <3>1. call \in [Senders -> [at : CallPC, left : Seq(Entry)]]
      BY <2>1, <2>2 DEF CallPC
    <3>2. server \in [at : ServerPC, got : Seq(Entry)]
      BY <2>1, <2>2 DEF ServerPC
    <3>3. native2amiga_pending \in Seq(Entry) /\ Len(native2amiga_pending) <= N2ASize
      BY <2>1, <2>2, N2AAssumption
    <3>4. n2asem \in Senders \cup {None} /\ cut_short \in BOOLEAN
      BY <2>2
    <3> QED BY <3>1, <3>2, <3>3, <3>4 DEF CallTypes
  <2>4. Turns
    BY <2>2, N2AAssumption DEF Turns
  <2>5. Stream = <<>>
    BY <2>1, <2>2 DEF Stream
  <2> QED BY <2>2, <2>3, <2>4, <2>5 DEF CallInv, Whole, Decoded, Decoding, Asked
<1>2. TableTypes /\ DevTypes /\ ThreadTypes /\ AmigaTypes
  <2>1. TableTypes
    BY HardfileAssumption DEF Init, TableTypes, Kinds, Done, Access, Accesses, AccessPC, Slots
  <2>2. DevTypes
    BY DEF Init, DevTypes, At, DevPC, AtWork
  <2>3. ThreadTypes
    BY EmptySeq DEF Init, ThreadTypes, At, EmuPC, EmuStates
  <2>4. AmigaTypes
    BY HardfileAssumption DEF Init, AmigaTypes, Commands
  <2> QED BY <2>1, <2>2, <2>3, <2>4
<1>3. Life /\ Guarded /\ Opens
  BY DEF Init, Life, Gone, Guarded, Opens, At, Doing
<1>4. Callers
  BY ThreeSenders DEF Init, N2AInit, NotCalling, Callers, Idle, At
<1> QED BY <1>1, <1>2, <1>3, <1>4 DEF Types, Lives

\* The interrupt server decodes the calls as they were made, however many
\* threads make them and however they take turns with it; and no call lies in
\* the pipe unasked for, but for a reset between the forgetting and the work.
THEOREM CallsStayWhole == Spec => []CallsAreWhole
<1>1. Init => Types
  BY TypesInit
<1>2. Types /\ [Next]_vars => Types'
  BY NextIsSteps, StepsKeepTypes
<1>3. Types => CallsAreWhole
  BY CallsAreWholeThen DEF Types
<1> QED BY <1>1, <1>2, <1>3, PTL DEF Spec

-----------------------------------------------------------------------------
(* Where a request is.  A request that was sent is an element of the pipe, *)
(* in the hands of the unit's thread, in the reply the thread has still to *)
(* write, in the reply that lies in native2amiga_pending, or in the hands  *)
(* of the interrupt server.                                                *)

Reply(x) == [of |-> Call("ReplyMsg", x), part |-> 1]
Tok(r) == [req |-> r, boot |-> boot]
Has(q, y) == \E i \in 1 .. Len(q) : q[i] = y
Single(q, y) == \A i, j \in 1 .. Len(q) : q[i] = y /\ q[j] = y => i = j

InThePipe(x) == Has(requests, x)
AtTheThread(x) == dev.req = x /\ dev.at \in AtWork \cup {"lock"}
ToWrite(x) == call[Device].left # <<>> /\ Head(call[Device].left) = Reply(x)
OnTheWay(x) == Has(native2amiga_pending, Reply(x))
WithTheServer(x) == Decoding /\ server.got[1].of = Call("ReplyMsg", x)

Places == {"pipe", "thread", "write", "way", "server"}
In(p, x) ==
    \/ p = "pipe" /\ InThePipe(x)
    \/ p = "thread" /\ AtTheThread(x)
    \/ p = "write" /\ ToWrite(x)
    \/ p = "way" /\ OnTheWay(x)
    \/ p = "server" /\ WithTheServer(x)
Singles(x) == Single(requests, x) /\ Single(native2amiga_pending, Reply(x))

\* A request of this boot is in one place, once; one that the Amiga owns is in none.
OnePlace ==
    \A r \in Requests :
       /\ Singles(Tok(r))
       /\ \A p, q \in Places : In(p, Tok(r)) /\ In(q, Tok(r)) => p = q
       /\ owner[r] = "Amiga" => \A p \in Places : ~ In(p, Tok(r))

\* Nothing in the unit was sent to another boot's unit; replies may be older.
Resetting == emu.at \in {"reset", "reset_close", "reset_clear"}
Boots ==
    \A x \in IoReq :
       /\ \A p \in Places : In(p, x) => x.boot <= boot /\ (Resetting => x.boot < boot)
       /\ \A p \in {"pipe", "thread"} : In(p, x) /\ ~ Resetting => x.boot = boot

\* What follows in a call is no command; only the unit's thread replies.
Parts ==
    \A s \in Senders :
       /\ \A i \in 2 .. Len(call[s].left) : call[s].left[i].part # 1
       /\ s # Device => \A i \in 1 .. Len(call[s].left) : call[s].left[i].of.kind # "ReplyMsg"

\* A routine, under way for a request; a wait for one.
Uses(t, r, type) ==
    /\ access[t].req = r /\ access[t].type = type
    /\ access[t].step \in {"find", "store", "mark"} \cup (IF type = "NONE" THEN {} ELSE {"free"})
Waits(t, r) == access[t].step = "wait" /\ access[t].req = r /\ access[t].type = "NONE"

\* Who is in the table for which request.
DevUses ==
    /\ dev.at = "add" => access["dev"] \in {Done, Full} \/ Uses("dev", dev.req.req, "CHANGEINT")
    /\ dev.at = "release" => access["dev"] = Done \/ Uses("dev", dev.req.req, "NONE")
    /\ dev.at \notin {"add", "release"} => access["dev"] = Done
EmuUses ==
    /\ emu.at = "begin" => access["emu"] \in {Done, Full} \/ Uses("emu", emu.req, "TEMP")
    /\ emu.at = "abort" => access["emu"] = Done \/ Uses("emu", emu.req, "NONE") \/ Waits("emu", emu.req)
    /\ emu.at = "reset" => access["emu"] = Done \/ \E r : Uses("emu", r, "NONE") \/ Waits("emu", r)
    /\ emu.at \notin {"begin", "abort", "reset"} => access["emu"] = Done

\* What is sent or in work is marked so, unless its mark was lost.  A request
\* that BeginIO enters is nowhere yet, but soon marked; AbortIO looks at slots
\* before the mark, as long as there is something to wait for.
Awaited(x) == InThePipe(x) \/ (AtTheThread(x) /\ ~ WorkedOff)
TempAt(i, r) == d_request[i] = r /\ d_request_type[i] = "TEMP"
Marked == \A r \in Requests : r \notin unmarked /\ Awaited(Tok(r)) => Processing(r)
Fresh == emu.at = "begin" => owner[emu.req] = "device" /\ \A p \in Places : ~ In(p, Tok(emu.req))
Entered ==
    emu.at = "begin" /\ emu.req \notin unmarked =>
      /\ access["emu"].step = "mark" => d_request[access["emu"].slot] = emu.req
      /\ access["emu"] = Done => Processing(emu.req)
Waited ==
    emu.at = "abort" /\ emu.req \notin unmarked /\ Awaited(Tok(emu.req)) =>
      access["emu"].step = "wait" /\ \E i \in Slots : i >= access["emu"].slot /\ TempAt(i, emu.req)

Users == DevUses /\ EmuUses
IInv == Types /\ Parts /\ Boots /\ OnePlace /\ Users /\ Fresh /\ Marked /\ Entered /\ Waited

\* Elements come at the end of a sequence and go from its front.
LEMMA HasSingle ==
  ASSUME NEW S, NEW q \in Seq(S), NEW y
  PROVE  /\ q = <<>> => ~ Has(q, y) /\ Single(q, y)
         /\ \A e \in S : /\ Has(Append(q, e), y) <=> Has(q, y) \/ y = e
                         /\ Single(q, y) /\ (y # e \/ ~ Has(q, y)) => Single(Append(q, e), y)
         /\ q # <<>> => /\ Has(q, y) <=> y = Head(q) \/ Has(Tail(q), y)
                        /\ Single(q, y) => Single(Tail(q), y) /\ (y = Head(q) => ~ Has(Tail(q), y))
<1>1. Len(q) \in Nat
  OBVIOUS
<1>2. q = <<>> => ~ Has(q, y) /\ Single(q, y)
  BY DEF Has, Single
<1>3. ASSUME NEW e \in S
      PROVE  /\ Has(Append(q, e), y) <=> Has(q, y) \/ y = e
             /\ Single(q, y) /\ (y # e \/ ~ Has(q, y)) => Single(Append(q, e), y)
  <2> DEFINE a == Append(q, e)
             n == Len(q)
  <2>1. Len(a) = n + 1 /\ a[n + 1] = e /\ \A i \in 1 .. n : a[i] = q[i]
    BY AppendProperties
  <2>2. n \in Nat /\ Len(q) = n
    BY <1>1
  <2> HIDE DEF a, n
  <2>3. \A i \in 1 .. Len(a) : i \in 1 .. n \/ i = n + 1
    BY <2>1, <2>2
  <2>4. n + 1 \in 1 .. Len(a) /\ \A i \in 1 .. n : i \in 1 .. Len(a)
    BY <2>1, <2>2
  <2>5. Has(a, y) <=> Has(q, y) \/ y = e
    BY <2>1, <2>2, <2>3, <2>4 DEF Has
  <2>6. ASSUME Single(q, y), y # e \/ ~ Has(q, y) PROVE Single(a, y)
    <3> SUFFICES ASSUME NEW i \in 1 .. Len(a), NEW j \in 1 .. Len(a), a[i] = y, a[j] = y PROVE i = j
      BY DEF Single
    <3>1. CASE y # e
      <4>1. i \in 1 .. n /\ j \in 1 .. n /\ q[i] = y /\ q[j] = y
        BY <2>1, <2>3, <3>1
      <4> QED BY <2>2, <2>6, <4>1 DEF Single
    <3>2. CASE ~ Has(q, y)
      <4>1. i \notin 1 .. n /\ j \notin 1 .. n
        BY <2>1, <2>2, <3>2 DEF Has
      <4> QED BY <2>3, <4>1
    <3> QED BY <2>6, <3>1, <3>2
  <2> QED BY <2>5, <2>6 DEF a
<1>4. ASSUME q # <<>>
      PROVE  /\ Has(q, y) <=> y = Head(q) \/ Has(Tail(q), y)
             /\ Single(q, y) => Single(Tail(q), y) /\ (y = Head(q) => ~ Has(Tail(q), y))
  <2> DEFINE t == Tail(q)
             n == Len(q)
  <2>1. Head(q) = q[1] /\ Len(t) = n - 1 /\ \A i \in 1 .. Len(t) : t[i] = q[i + 1]
    BY <1>4, HeadTailProperties
  <2>2. n \in Nat /\ Len(q) = n /\ n >= 1
    BY <1>1, <1>4
  <2> HIDE DEF t, n
  <2>3. 1 \in 1 .. n /\ \A i \in 1 .. Len(t) : i + 1 \in 1 .. n /\ i + 1 # 1 /\ i \in Int
    BY <2>1, <2>2
  <2>4. \A i \in 1 .. n : i = 1 \/ (i - 1 \in 1 .. Len(t) /\ (i - 1) + 1 = i)
    BY <2>1, <2>2
  <2>5. Has(q, y) => y = Head(q) \/ Has(t, y)
    <3> SUFFICES ASSUME NEW i \in 1 .. n, q[i] = y, i # 1 PROVE Has(t, y)
      BY <2>1, <2>2 DEF Has
    <3>1. i - 1 \in 1 .. Len(t) /\ t[i - 1] = y
      BY <2>1, <2>4
    <3> QED BY <3>1 DEF Has
  <2>6. y = Head(q) \/ Has(t, y) => Has(q, y)
    BY <2>1, <2>2, <2>3 DEF Has
  <2>7. ASSUME Single(q, y) PROVE Single(t, y)
    <3> SUFFICES ASSUME NEW i \in 1 .. Len(t), NEW j \in 1 .. Len(t), t[i] = y, t[j] = y PROVE i = j
      BY DEF Single
    <3>1. i + 1 \in 1 .. n /\ j + 1 \in 1 .. n /\ q[i + 1] = y /\ q[j + 1] = y
      BY <2>1, <2>3
    <3>2. i + 1 = j + 1
      BY <2>2, <2>7, <3>1 DEF Single
    <3> QED BY <2>3, <3>2
  <2>8. ASSUME Single(q, y), y = Head(q) PROVE ~ Has(t, y)
    <3> SUFFICES ASSUME NEW i \in 1 .. Len(t), t[i] = y PROVE FALSE
      BY DEF Has
    <3>1. i + 1 \in 1 .. n /\ q[i + 1] = y /\ q[1] = y /\ i + 1 # 1
      BY <2>1, <2>3, <2>8
    <3> QED BY <2>2, <2>3, <2>8, <3>1 DEF Single
  <2> QED BY <2>5, <2>6, <2>7, <2>8 DEF t
<1> QED BY <1>2, <1>3, <1>4

\* The calls of the steps: a sender goes on, or a call is begun.
LEMMA SendLeaves ==
  ASSUME CallTypes, NEW s \in Senders, Send(s)
  PROVE  \/ /\ WriteEntry(s) /\ call[s].left # <<>> /\ call'[s].left = Tail(call[s].left)
            /\ native2amiga_pending' = Append(native2amiga_pending, Head(call[s].left))
         \/ call'[s].left = call[s].left /\ native2amiga_pending' = native2amiga_pending
<1>1. CASE WriteEntry(s)
  BY <1>1 DEF WriteEntry, CallTypes
<1>2. CASE LockCalls(s) \/ RequestInt(s) \/ UnlockCalls(s)
  BY <1>2 DEF LockCalls, RequestInt, UnlockCalls, CallAt, CallTypes
<1> QED BY <1>1, <1>2 DEF Send

\* Whose call a step changes, and how.
LEMMA CallChanges ==
  ASSUME Types, Steps
  PROVE  \/ call' = call
         \/ \E s \in Senders : Send(s)
         \/ Begin(Device, Call("ReplyMsg", dev.req)) /\ dev.req \in IoReq /\ DevReply
         \/ \E s \in Senders \ {Device} : \E k \in {"Signal", "Notify"} : Begin(s, Call(k, signals))
<1>1. CASE DevReply
  BY <1>1 DEF DevReply, Dev, Begin, Types, Lives, Callers, DevTypes, AtWork
<1>2. CASE notify_send
  <2>1. Begin(Notifier, Call("Notify", signals))
    BY <1>2 DEF notify_send, Begin, Amiga, Types, Callers
  <2> QED BY <2>1, ThreeSenders
<1>3. CASE SocketSignals
  <2>1. Begin(Socket, Call("Signal", signals))
    BY <1>3 DEF SocketSignals, Begin
  <2> QED BY <2>1, ThreeSenders
<1>4. CASE NotifySends \/ SocketSends \/ Send(Device)
  BY <1>4, ThreeSenders DEF NotifySends, SocketSends
<1>5. CASE Interrupts \/ Deliver \/ Reset
  BY <1>5 DEF Interrupts, Deliver, Reset, Hsync, EnterServer, ReadEntry, Take, NothingLeft, ExitServer,
     MakeCall, N2AReset, senderVars
<1>6. CASE ~ (Interrupts \/ Deliver \/ NotifySends \/ SocketSends \/ Send(Device) \/ notify_send \/ SocketSignals
              \/ DevReply \/ Reset)
  BY <1>6 DEF Steps, vars, n2aVars, senderVars, OpenDone, BeginDone, AbortDone, CloseDone, ResetAborts, ResetTellsThread, ResetCloses,
     ResetClears, hardfile_open, hardfile_close, hardfile_abortio, hardfile_beginio, DevStart, DevRead,
     DevLock, DevWork, DevAdded, Routine, DevUnlock, DevDie, DevGone
<1> QED BY <1>1, <1>2, <1>3, <1>4, <1>5, <1>6

\* What follows in a call is no command.
LEMMA PartsStay ==
  ASSUME Types, Parts, Steps
  PROVE  Parts'
<1>0. CallTypes /\ \A s \in Senders : call[s].left \in Seq(Entry)
  BY StreamShape DEF Types, CallInv
<1> DEFINE P(s, l) == /\ \A i \in 2 .. Len(l) : l[i].part # 1
                      /\ s # Device => \A i \in 1 .. Len(l) : l[i].of.kind # "ReplyMsg"
<1>1. \A s \in Senders : P(s, call[s].left)
  BY DEF Parts
<1>2. ASSUME NEW s, NEW l \in Seq(Entry), l # <<>>, P(s, l) PROVE P(s, Tail(l))
  <2> DEFINE t == Tail(l)
             n == Len(l)
  <2>1. Len(t) = n - 1 /\ \A i \in 1 .. Len(t) : t[i] = l[i + 1]
    BY <1>2, HeadTailProperties
  <2>2. n \in Nat /\ Len(l) = n
    OBVIOUS
  <2> HIDE DEF t, n
  <2>3. \A i \in 1 .. Len(t) : i + 1 \in 1 .. n /\ i + 1 \in 2 .. n
    BY <2>1, <2>2
  <2>4. \A i \in 2 .. Len(t) : i \in 1 .. Len(t)
    BY <2>1, <2>2
  <2>5. \A i \in 2 .. Len(t) : t[i].part # 1
    BY <1>2, <2>1, <2>2, <2>3, <2>4
  <2>6. s # Device => \A i \in 1 .. Len(t) : t[i].of.kind # "ReplyMsg"
    BY <1>2, <2>1, <2>2, <2>3
  <2> QED BY <2>5, <2>6 DEF t
<1>3. ASSUME NEW s, NEW c \in NativeCall, s # Device => c.kind # "ReplyMsg" PROVE P(s, Entries(c))
  <2> DEFINE e == Entries(c)
  <2>1. \A i \in 1 .. Len(e) : e[i] = [of |-> c, part |-> i]
    BY EntryShape DEF Entries
  <2>2. Len(e) \in Nat
    BY WholeCall
  <2> HIDE DEF e
  <2>3. ASSUME NEW i \in 1 .. Len(e) PROVE e[i].of = c /\ e[i].part = i
    <3>1. e[i] = [of |-> c, part |-> i]
      BY <2>1
    <3> QED BY ONLY <3>1
  <2>4. \A i \in 2 .. Len(e) : i \in 1 .. Len(e) /\ i # 1
    BY <2>2
  <2>5. \A i \in 2 .. Len(e) : e[i].part # 1
    BY <2>3, <2>4
  <2>6. s # Device => \A i \in 1 .. Len(e) : e[i].of.kind # "ReplyMsg"
    BY <1>3, <2>3
  <2> QED BY <2>5, <2>6 DEF e
<1> HIDE DEF P
<1>4. CASE call' = call
  BY <1>4 DEF Parts
<1>5. ASSUME NEW s \in Senders, Send(s) PROVE \A t \in Senders : P(t, call'[t].left)
  <2>1. \A t \in Senders \ {s} : call'[t] = call[t]
    BY <1>0, <1>5, OtherCalls
  <2>2. P(s, call'[s].left)
    BY <1>0, <1>1, <1>2, <1>5, SendLeaves
  <2> QED BY <1>1, <2>1, <2>2
<1>6. ASSUME NEW s \in Senders, NEW c \in NativeCall, s # Device => c.kind # "ReplyMsg", Begin(s, c)
      PROVE  \A t \in Senders : P(t, call'[t].left)
  <2>1. \A t \in Senders \ {s} : call'[t] = call[t]
    BY <1>0, <1>6, OtherCalls
  <2>2. call'[s].left = Entries(c)
    BY <1>0, <1>6 DEF Begin, BeginCall, CallTypes
  <2> QED BY <1>1, <1>3, <1>6, <2>1, <2>2
<1>7. /\ \A x \in IoReq : Call("ReplyMsg", x) \in NativeCall
      /\ \A k \in {"Signal", "Notify"} : Call(k, signals) \in NativeCall /\ Call(k, signals).kind # "ReplyMsg"
  BY DEF Call, NativeCall, Types, Lives, AmigaTypes
<1>8. (\A t \in Senders : P(t, call'[t].left)) => Parts'
  BY DEF Parts, P
<1> QED BY <1>4, <1>5, <1>6, <1>7, <1>8, CallChanges, ThreeSenders

-----------------------------------------------------------------------------
(* How requests move.                                                      *)

Calm(x) == (\A p \in Places : In(p, x)' => In(p, x)) /\ (Singles(x) => Singles(x)')
Goes(from, to, x) ==
    /\ In(from, x) /\ \A p \in Places : In(p, x)' => In(p, x) \/ p = to
    /\ Singles(x) => ~ In(from, x)'
    /\ Singles(x) /\ ~ In(to, x) => Singles(x)'
Enters(x) ==
    /\ BeginDone /\ x = Tok(emu.req)
    /\ \A p \in Places : In(p, x)' => In(p, x) \/ p = "pipe"
    /\ Singles(x) /\ ~ In("pipe", x) => Singles(x)'

\* The steps that move no request.
OtherSteps ==
    \/ (Hsync \/ EnterServer \/ NothingLeft \/ ExitServer) /\ Interrupts
    \/ Deliver \/ OpenDone \/ AbortDone \/ CloseDone
    \/ NotifySends \/ ResetAborts \/ ResetTellsThread \/ ResetCloses \/ ResetClears
    \/ hardfile_open \/ hardfile_close \/ Reset \/ notify_send
    \/ (\E r \in Requests : hardfile_abortio(r))
    \/ (\E r \in Requests, c \in Commands : hardfile_beginio(r, c))
    \/ Routine("emu") \/ Routine("dev")
    \/ DevStart \/ DevLock \/ DevWork \/ DevAdded \/ DevUnlock \/ DevDie \/ DevGone
    \/ SocketSignals \/ SocketSends
    \/ UNCHANGED vars

\* A sender leaves the server alone.
LEMMA SendServes ==
  ASSUME NEW s \in Senders, Send(s)
  PROVE  server' = server
BY DEF Send, LockCalls, WriteEntry, RequestInt, UnlockCalls, serverVars

\* What a request's place is said of, at its front.
LEMMA ReplyShape ==
  /\ \A x, y : Reply(x) = Reply(y) => x = y
  /\ \A x : Reply(x).of = Call("ReplyMsg", x) /\ Reply(x).part = 1 /\ Reply(x).of.kind = "ReplyMsg"
  /\ \A e \in Entry, x \in IoReq : e.of = Call("ReplyMsg", x) /\ e.part = 1 => e = Reply(x)
  /\ \A x \in IoReq : Call("ReplyMsg", x) \in NativeCall /\ Reply(x) \in Entry
<1>1. \A x, y : Reply(x) = Reply(y) => x = y
  <2> SUFFICES ASSUME NEW x, NEW y, Reply(x) = Reply(y) PROVE x = y
    OBVIOUS
  <2>1. Reply(x).of = Reply(y).of /\ Reply(x).of.arg = Reply(y).of.arg
    OBVIOUS
  <2>2. Reply(x).of.arg = x /\ Reply(y).of.arg = y
    BY DEF Reply, Call
  <2> QED BY <2>1, <2>2
<1>2. \A x : Reply(x).of = Call("ReplyMsg", x) /\ Reply(x).part = 1 /\ Reply(x).of.kind = "ReplyMsg"
  BY DEF Reply, Call
<1>3. \A e \in Entry, x \in IoReq : e.of = Call("ReplyMsg", x) /\ e.part = 1 => e = Reply(x)
  BY DEF Entry, Reply
<1>4. \A x \in IoReq : Call("ReplyMsg", x) \in NativeCall
  BY DEF Call, NativeCall
<1>5. \A x \in IoReq : Reply(x) \in Entry
  BY <1>4 DEF Reply, Entry
<1> QED BY <1>1, <1>2, <1>3, <1>4, <1>5

\* Such a step leaves each request where it is, or forgets it.
LEMMA OthersAreCalm ==
  ASSUME Types, Parts, Steps, OtherSteps, NEW x \in IoReq
  PROVE  Calm(x)
<1>0. /\ CallTypes /\ DevTypes /\ DevTypes' /\ x # Death
      /\ server.got \in Seq(Entry) /\ native2amiga_pending \in Seq(Entry)
      /\ \A s \in Senders : call[s].left \in Seq(Entry)
  BY StreamShape, DevTypesStay, HardfileAssumption DEF Types, Lives, CallInv, Death, IoReq
<1>1. requests' = requests \/ requests' = <<>> \/ requests' = Append(requests, Death)
  BY DEF OtherSteps, vars, privdata, Interrupts, Deliver, OpenDone, AbortDone, CloseDone, NotifySends,
     ResetAborts, ResetTellsThread, ResetCloses, ResetClears, hardfile_open, hardfile_close, Reset, notify_send,
     hardfile_abortio, hardfile_beginio, DevStart, DevLock, DevWork, DevAdded, Routine, DevUnlock, DevDie, DevGone,
     SocketSignals, SocketSends
<1>2. (InThePipe(x)' => InThePipe(x)) /\ (Single(requests, x) => Single(requests, x)')
  <2>1. requests \in Seq(IoReq \cup {Death}) /\ Death \in IoReq \cup {Death}
    BY DEF Types, Lives, ThreadTypes
  <2>2. (Has(requests', x) => Has(requests, x)) /\ (Single(requests, x) => Single(requests', x))
    <3>1. CASE requests' = requests
      BY <3>1
    <3>2. CASE requests' = <<>>
      BY <3>2, EmptySeq DEF Has, Single
    <3>3. CASE requests' = Append(requests, Death)
      BY <1>0, <2>1, <3>3, HasSingle
    <3> QED BY <1>1, <3>1, <3>2, <3>3
  <2> QED BY <2>2 DEF InThePipe
<1>3. AtTheThread(x)' => AtTheThread(x)
  <2>1. CASE DevLock \/ DevWork \/ DevAdded
    <3>1. dev.at \in {"lock", "work", "add"} /\ \E to \in DevPC : dev' = [dev EXCEPT !.at = to]
      BY <2>1 DEF DevLock, DevWork, DevAdded, Dev, DevPC
    <3>2. dev'.req = dev.req
      BY <1>0, <3>1, DevMoves
    <3> QED BY <3>1, <3>2 DEF AtTheThread, AtWork
  <2>4. CASE DevStart
    <3>1. dev'.at = "read"
      BY <1>0, <2>4, DevMoves DEF DevStart, Dev, DevPC
    <3> QED BY <3>1 DEF AtTheThread, AtWork
  <2>5. CASE DevUnlock \/ DevDie \/ hardfile_open
    <3>1. dev' = dev \/ dev'.at \in {"read", "none", "start"}
      BY <2>5 DEF DevUnlock, DevDie, hardfile_open, At
    <3> QED BY <3>1 DEF AtTheThread, AtWork
  <2>6. dev' = dev => (AtTheThread(x)' => AtTheThread(x))
    BY DEF AtTheThread
  <2>7. CASE ~ (DevStart \/ DevLock \/ DevWork \/ DevAdded \/ DevUnlock \/ DevDie \/ hardfile_open)
    <3>1. dev' = dev
      BY <2>7 DEF OtherSteps, vars, Interrupts, Deliver, OpenDone, AbortDone, CloseDone, NotifySends,
         ResetAborts, ResetTellsThread, ResetCloses, ResetClears, hardfile_close, Reset, notify_send, hardfile_abortio, hardfile_beginio,
         DevGone, Routine, SocketSignals, SocketSends
    <3> QED BY <2>6, <3>1
  <2> QED BY <2>1, <2>4, <2>5, <2>7
<1>4. call'[Device] = call[Device] /\ \/ native2amiga_pending' = native2amiga_pending
                                      \/ \E s \in Senders \ {Device} : Send(s)
  <2>1. CASE NotifySends \/ SocketSends
    <3>1. \E s \in Senders \ {Device} : Send(s)
      BY <2>1, ThreeSenders DEF NotifySends, SocketSends
    <3> QED BY <1>0, <3>1, ThreeSenders, OtherCalls
  <2>2. CASE notify_send \/ SocketSignals
    <3>1. native2amiga_pending' = native2amiga_pending
      BY <2>2 DEF notify_send, SocketSignals
    <3>2. \E s \in Senders \ {Device} : \E c : BeginCall(s, c)
      BY <2>2, ThreeSenders DEF notify_send, SocketSignals
    <3>3. call'[Device] = call[Device]
      BY <1>0, <3>2, ThreeSenders DEF BeginCall, CallTypes
    <3> QED BY <3>1, <3>3
  <2>3. CASE ~ (NotifySends \/ SocketSends \/ notify_send \/ SocketSignals)
    <3>1. call' = call /\ native2amiga_pending' = native2amiga_pending
      BY <2>3 DEF OtherSteps, vars, n2aVars, senderVars, Interrupts, Deliver, OpenDone, AbortDone, CloseDone,
         ResetAborts, ResetTellsThread, ResetCloses, ResetClears, hardfile_open, hardfile_close, Reset, hardfile_abortio, hardfile_beginio, DevStart,
         DevLock, DevWork, DevAdded, Routine, DevUnlock, DevDie, DevGone, Hsync, EnterServer, NothingLeft,
         ExitServer, MakeCall, N2AReset
    <3> QED BY <3>1
  <2> QED BY <2>1, <2>2, <2>3
<1>5. ToWrite(x)' => ToWrite(x)
  BY <1>4 DEF ToWrite
<1>6. (OnTheWay(x)' => OnTheWay(x)) /\ (Single(native2amiga_pending, Reply(x)) => Single(native2amiga_pending, Reply(x))')
  <2>1. CASE native2amiga_pending' = native2amiga_pending
    BY <2>1 DEF OnTheWay
  <2>2. ASSUME NEW s \in Senders \ {Device}, Send(s)
        PROVE  /\ Has(native2amiga_pending', Reply(x)) => Has(native2amiga_pending, Reply(x))
               /\ Single(native2amiga_pending, Reply(x)) => Single(native2amiga_pending', Reply(x))
    <3> DEFINE e == Head(call[s].left)
    <3>1. CASE native2amiga_pending' = native2amiga_pending
      BY <3>1
    <3>2. CASE native2amiga_pending' = Append(native2amiga_pending, e) /\ call[s].left # <<>>
      <4>1. e \in Entry /\ e = call[s].left[1] /\ 1 \in 1 .. Len(call[s].left)
        BY <1>0, <3>2, HeadTailProperties
      <4>2. e.of.kind # "ReplyMsg"
        BY <4>1 DEF Parts
      <4>3. e # Reply(x)
        BY <4>2, ReplyShape
      <4> HIDE DEF e
      <4> QED BY <1>0, <3>2, <4>1, <4>3, HasSingle
    <3> QED BY <1>0, <2>2, <3>1, <3>2, SendLeaves
  <2> QED BY <1>4, <2>1, <2>2 DEF OnTheWay
<1>7. WithTheServer(x)' => WithTheServer(x)
  <2>1. server'.got = server.got \/ server'.got = <<>>
    <3>1. CASE (Hsync \/ EnterServer \/ NothingLeft \/ ExitServer) /\ Interrupts
      BY <1>0, <3>1 DEF Hsync, EnterServer, NothingLeft, ExitServer, serverVars, CallTypes
    <3>2. CASE Deliver
      BY <1>0, <3>2 DEF Deliver, MakeCall, CallTypes
    <3>3. CASE Reset
      BY <3>3 DEF Reset, N2AReset
    <3>4. CASE NotifySends \/ SocketSends
      BY <3>4, SendServes, ThreeSenders DEF NotifySends, SocketSends
    <3>5. CASE ~ (((Hsync \/ EnterServer \/ NothingLeft \/ ExitServer) /\ Interrupts)
                  \/ Deliver \/ Reset \/ NotifySends \/ SocketSends)
      BY <3>5 DEF OtherSteps, vars, n2aVars, serverVars, OpenDone, AbortDone, CloseDone, notify_send, SocketSignals,
         ResetAborts, ResetTellsThread, ResetCloses, ResetClears, hardfile_open, hardfile_close, hardfile_abortio, hardfile_beginio, DevStart,
         DevLock, DevWork, DevAdded, Routine, DevUnlock, DevDie, DevGone
    <3> QED BY <3>1, <3>2, <3>3, <3>4, <3>5 DEF OtherSteps
  <2> QED BY <2>1 DEF WithTheServer, Decoding
<1> QED BY <1>2, <1>3, <1>5, <1>6, <1>7 DEF Calm, In, Singles

\* The thread takes the request at the pipe's front.
LEMMA ReadMoves ==
  ASSUME Types, DevRead, NEW x \in IoReq
  PROVE  Calm(x) \/ Goes("pipe", "thread", x)
<1> DEFINE h == Head(requests)
<1>1. /\ requests # <<>> /\ requests' = Tail(requests) /\ dev' = At("lock", h)
      /\ UNCHANGED <<native2amiga_pending, call, server>>
  BY DEF DevRead, n2aVars, senderVars, serverVars
<1>2. requests \in Seq(IoReq \cup {Death})
  BY DEF Types, Lives, ThreadTypes
<1>3. /\ Has(requests, x) <=> x = h \/ Has(requests', x)
      /\ Single(requests, x) => Single(requests', x) /\ (x = h => ~ Has(requests', x))
  BY <1>1, <1>2, HasSingle
<1>4. AtTheThread(x)' => x = h
  BY <1>1 DEF AtTheThread, At
<1>5. /\ ToWrite(x)' <=> ToWrite(x)
      /\ OnTheWay(x)' <=> OnTheWay(x)
      /\ WithTheServer(x)' <=> WithTheServer(x)
      /\ Single(native2amiga_pending, Reply(x))' <=> Single(native2amiga_pending, Reply(x))
  BY <1>1 DEF ToWrite, OnTheWay, WithTheServer, Decoding
<1> HIDE DEF h
<1>6. CASE x = h
  BY <1>3, <1>5, <1>6 DEF Goes, In, Singles, InThePipe
<1>7. CASE x # h
  BY <1>3, <1>4, <1>5, <1>7 DEF Calm, In, Singles, InThePipe
<1> QED BY <1>6, <1>7

\* The thread begins the reply to its request.
LEMMA ReplyMoves ==
  ASSUME Types, DevReply, NEW x \in IoReq
  PROVE  Calm(x) \/ Goes("thread", "write", x)
<1> DEFINE d == dev.req
<1>1. /\ dev.at = "release" /\ dev' = [dev EXCEPT !.at = "sending"] /\ d \in IoReq
      /\ call' = [call EXCEPT ![Device] = [at |-> "lock", left |-> Entries(Call("ReplyMsg", d))]]
      /\ UNCHANGED <<native2amiga_pending, requests, server>>
  BY DEF DevReply, Dev, BeginCall, privdata, serverVars, Types, Lives, DevTypes, AtWork
<1>2. call'[Device].left = Entries(Call("ReplyMsg", d))
  BY <1>1, ThreeSenders DEF Types, CallInv, CallTypes
<1>3. Head(call'[Device].left) = Reply(d)
  <2>1. Call("ReplyMsg", d) \in NativeCall
    BY <1>1, ReplyShape
  <2> QED BY <1>2, <2>1, WholeCall DEF Reply
<1>4. ToWrite(x)' => x = d
  BY <1>3, ReplyShape DEF ToWrite
<1>5. dev'.at = "sending"
  BY <1>1, DevMoves DEF DevPC, Types, Lives
<1>6. ~ AtTheThread(x)' /\ (x = d => AtTheThread(x))
  BY <1>1, <1>5 DEF AtTheThread, AtWork
<1>7. /\ InThePipe(x)' <=> InThePipe(x)
      /\ OnTheWay(x)' <=> OnTheWay(x)
      /\ WithTheServer(x)' <=> WithTheServer(x)
      /\ Singles(x)' <=> Singles(x)
  BY <1>1 DEF InThePipe, OnTheWay, WithTheServer, Decoding, Singles
<1> HIDE DEF d
<1>8. CASE x = d
  BY <1>6, <1>7, <1>8 DEF Goes, In
<1>9. CASE x # d
  BY <1>4, <1>6, <1>7, <1>9 DEF Calm, In
<1> QED BY <1>8, <1>9

\* The thread writes its reply, or takes and leaves its turn.
LEMMA SendMoves ==
  ASSUME Types, Parts, NEW x \in IoReq,
         Send(Device) /\ UNCHANGED <<privdata, change_sem, dev, leaving, emu, amigaVars, counters>>
  PROVE  Calm(x) \/ Goes("write", "way", x)
<1> DEFINE left == call[Device].left
           p == native2amiga_pending
           h == Head(left)
<1>1. requests' = requests /\ dev' = dev /\ server' = server
  BY SendServes, ThreeSenders DEF privdata
<1>2. CallTypes /\ left \in Seq(Entry) /\ p \in Seq(Entry)
  BY ThreeSenders, StreamShape DEF Types, CallInv
<1>3. /\ InThePipe(x)' <=> InThePipe(x)
      /\ AtTheThread(x)' <=> AtTheThread(x)
      /\ WithTheServer(x)' <=> WithTheServer(x)
      /\ Single(requests, x)' <=> Single(requests, x)
  BY <1>1 DEF InThePipe, AtTheThread, WithTheServer, Decoding
<1>4. CASE call'[Device].left = left /\ p' = p
  <2>1. /\ ToWrite(x)' <=> ToWrite(x)
        /\ OnTheWay(x)' <=> OnTheWay(x)
        /\ Single(p, Reply(x))' <=> Single(p, Reply(x))
    BY <1>4 DEF ToWrite, OnTheWay
  <2> QED BY <1>3, <2>1 DEF Calm, In, Singles
<1>5. CASE left # <<>> /\ call'[Device].left = Tail(left) /\ p' = Append(p, h)
  <2>1. h \in Entry /\ h = left[1] /\ Tail(left) \in Seq(Entry) /\ Len(Tail(left)) = Len(left) - 1
        /\ \A i \in 1 .. Len(Tail(left)) : Tail(left)[i] = left[i + 1]
    BY <1>2, <1>5, HeadTailProperties
  <2>2. ~ ToWrite(x)'
    <3> SUFFICES ASSUME Tail(left) # <<>>, Head(Tail(left)) = Reply(x) PROVE FALSE
      BY <1>5 DEF ToWrite
    <3>1. Len(Tail(left)) \in Nat /\ Len(Tail(left)) >= 1 /\ Head(Tail(left)) = Tail(left)[1]
      BY <2>1
    <3>2. 1 \in 1 .. Len(Tail(left)) /\ 1 + 1 = 2 /\ 2 \in 2 .. Len(left)
      BY <1>2, <2>1, <3>1
    <3>3. Tail(left)[1] = left[2]
      BY <2>1, <3>2
    <3>4. left[2].part # 1
      BY <3>2, ThreeSenders DEF Parts
    <3> QED BY <3>1, <3>3, <3>4, ReplyShape
  <2>3. /\ Has(p', Reply(x)) <=> Has(p, Reply(x)) \/ Reply(x) = h
        /\ Single(p, Reply(x)) /\ (Reply(x) # h \/ ~ Has(p, Reply(x))) => Single(p', Reply(x))
    BY <1>2, <1>5, <2>1, HasSingle
  <2>4. ToWrite(x) <=> h = Reply(x)
    BY <1>5 DEF ToWrite
  <2> HIDE DEF left, p, h
  <2>5. CASE h = Reply(x)
    BY <1>3, <2>2, <2>3, <2>4, <2>5 DEF Goes, In, Singles, OnTheWay, p
  <2>6. CASE h # Reply(x)
    BY <1>3, <2>2, <2>3, <2>4, <2>6 DEF Calm, In, Singles, OnTheWay, p
  <2> QED BY <2>5, <2>6
<1> QED BY <1>2, <1>4, <1>5, ThreeSenders, SendLeaves

\* The server decodes the front of the pipe.
LEMMA TakeMoves ==
  ASSUME Types, ReadEntry, Interrupts, NEW x \in IoReq
  PROVE  Calm(x) \/ Goes("way", "server", x)
<1> DEFINE p == native2amiga_pending
           g == server.got
           h == Head(p)
           q == p \o Left
<1>1. /\ p # <<>> /\ p' = Tail(p) /\ server' = [server EXCEPT !.got = Append(g, h)] /\ ~ Complete
      /\ UNCHANGED <<call, requests, dev>>
  BY DEF ReadEntry, Take, Interrupts, senderVars, privdata
<1>2. p \in Seq(Entry) /\ g \in Seq(Entry) /\ Left \in Seq(Entry)
  BY StreamShape DEF Types, CallInv
<1>3. server'.got = Append(g, h) /\ h \in Entry /\ h = p[1]
  BY <1>1, <1>2, HeadTailProperties DEF Types, CallInv, CallTypes
<1>4. /\ Append(g, h) # <<>>
      /\ Append(g, h)[1] = IF g = <<>> THEN h ELSE g[1]
  BY <1>2, <1>3, AppendProperties
<1>5. /\ Has(p, Reply(x)) <=> Reply(x) = h \/ Has(p', Reply(x))
      /\ Single(p, Reply(x)) => Single(p', Reply(x)) /\ (Reply(x) = h => ~ Has(p', Reply(x)))
  BY <1>1, <1>2, HasSingle
<1>6. /\ InThePipe(x)' <=> InThePipe(x)
      /\ AtTheThread(x)' <=> AtTheThread(x)
      /\ ToWrite(x)' <=> ToWrite(x)
      /\ Single(requests, x)' <=> Single(requests, x)
  BY <1>1 DEF InThePipe, AtTheThread, ToWrite
<1>7. q \in Seq(Entry) /\ Stream = g \o q /\ Whole(g \o q)
  <2>1. \A a \in Seq(Entry), b \in Seq(Entry), c \in Seq(Entry) : (a \o b) \o c = a \o (b \o c) /\ a \o b \in Seq(Entry)
    BY ConcatAssociative, ConcatProperties
  <2>2. q \in Seq(Entry) /\ (g \o p) \o Left = g \o q
    BY ONLY <1>2, <2>1, Zenon
  <2>3. Stream = (g \o p) \o Left /\ Whole(Stream)
    BY DEF Stream, Left, Types, CallInv
  <2> QED BY <2>2, <2>3
<1>8. q[1] = h /\ q # <<>>
  <2>1. Len(p) \in Nat /\ Len(p) >= 1 /\ Len(Left) \in Nat
    BY <1>1, <1>2
  <2> HIDE DEF p
  <2>2. q[1] = p[1] /\ Len(q) >= 1
    BY <1>2, <2>1, ConcatProperties
  <2>3. q # <<>>
    BY <2>2, EmptySeq
  <2> QED BY <1>3, <2>2, <2>3
<1> HIDE DEF q
<1>9. CASE g = <<>>
  <2>1. h.part = 1
    <3>1. g \o q = q
      BY <1>7, <1>9, ConcatEmptySeq
    <3> QED BY <1>7, <1>8, <3>1 DEF Whole
  <2>2. WithTheServer(x)' <=> h = Reply(x)
    BY <1>3, <1>4, <1>9, <2>1, ReplyShape DEF WithTheServer, Decoding
  <2>3. ~ WithTheServer(x)
    BY <1>9 DEF WithTheServer, Decoding
  <2> HIDE DEF p, h, g
  <2>4. CASE h = Reply(x)
    BY <1>5, <1>6, <2>2, <2>3, <2>4 DEF Goes, In, Singles, OnTheWay, p
  <2>5. CASE h # Reply(x)
    BY <1>5, <1>6, <2>2, <2>3, <2>5 DEF Calm, In, Singles, OnTheWay, p
  <2> QED BY <2>4, <2>5
<1>10. CASE g # <<>>
  <2>1. h.part # 1
    <3>1. Len(g) <= Args(g[1].of.kind) + 1 /\ Len(g) # Args(g[1].of.kind) + 1
      BY <1>1, <1>10 DEF Types, CallInv, Decoded, Decoding, Complete
    <3>2. Len(g) \in Nat /\ Len(g) >= 1 /\ Args(g[1].of.kind) \in 1 .. 2
      BY <1>2, <1>10, EntryShape
    <3>3. Len(g) < Args(g[1].of.kind) + 1
      BY <3>1, <3>2
    <3>4. q[1].part = Len(g) + 1
      BY <1>2, <1>7, <1>10, <3>1, <3>3, WholeRest
    <3> QED BY <1>8, <3>2, <3>4
  <2>2. h # Reply(x)
    BY <2>1, ReplyShape
  <2>3. WithTheServer(x)' <=> WithTheServer(x)
    BY <1>3, <1>4, <1>10 DEF WithTheServer, Decoding
  <2> HIDE DEF p, h, g
  <2> QED BY <1>5, <1>6, <2>2, <2>3 DEF Calm, In, Singles, OnTheWay, p
<1> QED BY <1>9, <1>10

\* A request is sent.
LEMMA SentMoves ==
  ASSUME Types, BeginDone, NEW x \in IoReq
  PROVE  Calm(x) \/ Enters(x)
<1> DEFINE t == Tok(emu.req)
           S == IoReq \cup {Death}
<1>1. requests' = Append(requests, t) /\ UNCHANGED <<native2amiga_pending, call, server, dev>>
  BY DEF BeginDone, Tok, n2aVars, senderVars, serverVars
<1>2. requests \in Seq(S) /\ t \in S
  <2>1. emu.req \in Requests
    BY DEF BeginDone, Emu, Types, Lives, ThreadTypes, EmuStates
  <2> QED BY <2>1 DEF Types, Lives, ThreadTypes, AmigaTypes, Tok, IoReq
<1> HIDE DEF t, S
<1>3. /\ Has(requests', x) <=> Has(requests, x) \/ x = t
      /\ Single(requests, x) /\ (x # t \/ ~ Has(requests, x)) => Single(requests', x)
  BY <1>1, <1>2, HasSingle
<1>4. /\ AtTheThread(x)' <=> AtTheThread(x)
      /\ ToWrite(x)' <=> ToWrite(x)
      /\ OnTheWay(x)' <=> OnTheWay(x)
      /\ WithTheServer(x)' <=> WithTheServer(x)
      /\ Single(native2amiga_pending, Reply(x))' <=> Single(native2amiga_pending, Reply(x))
  BY <1>1 DEF AtTheThread, ToWrite, OnTheWay, WithTheServer, Decoding
<1>5. CASE x = t
  BY <1>3, <1>4, <1>5 DEF Enters, In, Singles, InThePipe, t
<1>6. CASE x # t
  BY <1>3, <1>4, <1>6 DEF Calm, In, Singles, InThePipe
<1> QED BY <1>5, <1>6

\* In every step a request stays where it is or is forgotten, goes one place
\* further, or is sent.
LEMMA Movement ==
  ASSUME Types, Parts, Steps, NEW x \in IoReq
  PROVE  \/ Calm(x)
         \/ Goes("pipe", "thread", x) \/ Goes("thread", "write", x)
         \/ Goes("write", "way", x) \/ Goes("way", "server", x)
         \/ Enters(x)
<1>1. OtherSteps => Calm(x)
  BY OthersAreCalm
<1>2. (ReadEntry /\ Interrupts) \/ OtherSteps \/ DevRead \/ DevReply
      \/ (Send(Device) /\ UNCHANGED <<privdata, change_sem, dev, leaving, emu, amigaVars, counters>>)
      \/ BeginDone
  BY DEF Steps, OtherSteps, Interrupts
<1> QED BY <1>1, <1>2, ReadMoves, ReplyMoves, SendMoves, TakeMoves, SentMoves

-----------------------------------------------------------------------------
(* Boots, and places, of requests.                                         *)

\* What a reset counts: only its first and its last step change it.
LEMMA BootSteps ==
  ASSUME Types, Steps
  PROVE  \/ Reset /\ OtherSteps /\ boot' = boot + 1 /\ ~ Resetting /\ Resetting'
         \/ ResetClears /\ OtherSteps /\ boot' = boot /\ Resetting /\ ~ Resetting'
         \/ boot' = boot /\ (Resetting' <=> Resetting)
<1>1. CASE Reset
  BY <1>1 DEF Reset, OtherSteps, At, Round, Resetting
<1>2. CASE ResetClears
  BY <1>2 DEF ResetClears, OtherSteps, Emu, At, Resetting, amigaVars
<1>3. CASE ~ Reset /\ ~ ResetClears
  <2>1. boot' = boot
    BY <1>3 DEF Steps, vars, amigaVars, Interrupts, Deliver, OpenDone, BeginDone, AbortDone, CloseDone, NotifySends,
     ResetAborts, ResetTellsThread, ResetCloses, hardfile_open, hardfile_close, notify_send,
     hardfile_abortio, hardfile_beginio, DevStart, DevRead, DevLock, DevWork, DevAdded, Routine,
     DevReply, DevUnlock, DevDie, DevGone, SocketSignals, SocketSends
  <2> DEFINE Up == {"cpu", "open", "begin", "abort", "close", "notify"}
             E == \/ emu' = emu
                  \/ emu.at \in Up /\ emu'.at \in Up
                  \/ emu.at \in {"reset", "reset_close"} /\ emu'.at \in {"reset", "reset_close", "reset_clear"}
  <2>2. E
    <3>1. CASE OpenDone \/ BeginDone \/ AbortDone \/ CloseDone
      BY <3>1 DEF OpenDone, BeginDone, AbortDone, CloseDone, Emu, At
    <3>2. CASE hardfile_open \/ hardfile_close \/ notify_send
      BY <3>2 DEF hardfile_open, hardfile_close, notify_send, Amiga, At
    <3>3. CASE NotifySends
      BY <3>3 DEF NotifySends, At
    <3>4. CASE ResetAborts \/ ResetTellsThread \/ ResetCloses
      BY <3>4 DEF ResetAborts, ResetTellsThread, ResetCloses, Emu, Round, At
    <3>5. CASE (\E r \in Requests : hardfile_abortio(r)) \/ \E r \in Requests, c \in Commands : hardfile_beginio(r, c)
      BY <3>5 DEF hardfile_abortio, hardfile_beginio, Amiga, At
    <3>6. CASE ~ (OpenDone \/ BeginDone \/ AbortDone \/ CloseDone \/ hardfile_open \/ hardfile_close \/ notify_send
                  \/ NotifySends \/ ResetAborts \/ ResetTellsThread \/ ResetCloses
                  \/ (\E r \in Requests : hardfile_abortio(r))
                  \/ \E r \in Requests, c \in Commands : hardfile_beginio(r, c))
      <4>1. emu' = emu
        BY <1>3, <3>6 DEF Steps, vars, Interrupts, Deliver, Routine, DevStart, DevRead, DevLock, DevWork,
           DevAdded, DevReply, DevUnlock, DevDie, DevGone, SocketSignals, SocketSends
      <4> QED BY <4>1
    <3> QED BY <3>1, <3>2, <3>3, <3>4, <3>5, <3>6
  <2>3. Resetting' <=> Resetting
    BY <2>2 DEF Resetting
  <2> QED BY <2>1, <2>3
<1> QED BY <1>1, <1>2, <1>3

\* The Amiga has a request again when its reply is delivered, or after a reset.
LEMMA OwnerSteps ==
  ASSUME Types, Steps, NEW r \in Requests, owner'[r] = "Amiga", owner[r] # "Amiga"
  PROVE  Reset \/ (Deliver /\ OtherSteps /\ WithTheServer(Tok(r)) /\ ~ WithTheServer(Tok(r))')
<1>0. owner \in [Requests -> {"Amiga", "device"}]
  BY DEF Types, Lives, AmigaTypes
<1>1. CASE Deliver
  <2> DEFINE c == server.got[1].of
  <2>1. /\ owner' = IF c.kind = "ReplyMsg" /\ c.arg.boot = boot THEN [owner EXCEPT ![c.arg.req] = "Amiga"] ELSE owner
        /\ boot' = boot /\ server' = [server EXCEPT !.got = <<>>] /\ Decoding /\ server.got \in Seq(Entry)
    BY <1>1, StreamShape DEF Deliver, MakeCall, Complete, Types, CallInv
  <2>2. c \in NativeCall
    <3>1. server.got[1] \in Entry
      BY <2>1 DEF Decoding
    <3> QED BY <3>1, EntryShape
  <2>3. server'.got = <<>>
    BY <2>1 DEF Types, CallInv, CallTypes
  <2> HIDE DEF c
  <2>4. c.kind = "ReplyMsg" /\ c.arg.boot = boot /\ c.arg.req = r
    BY <1>0, <2>1
  <2>5. c.arg \in IoReq /\ c = Call("ReplyMsg", c.arg)
    BY <2>2, <2>4 DEF NativeCall, Call
  <2>6. c.arg = Tok(r)
    BY <2>4, <2>5 DEF IoReq, Tok
  <2>7. WithTheServer(Tok(r))
    BY <2>1, <2>5, <2>6 DEF WithTheServer, c
  <2>8. ~ WithTheServer(Tok(r))'
    BY <2>3 DEF WithTheServer, Decoding
  <2> QED BY <1>1, <2>7, <2>8 DEF OtherSteps
<1>2. CASE \E q \in Requests, c \in Commands : hardfile_beginio(q, c)
  BY <1>0, <1>2 DEF hardfile_beginio
<1>3. CASE Reset
  BY <1>3
<1>4. CASE ~ Deliver /\ ~ Reset /\ ~ \E q \in Requests, c \in Commands : hardfile_beginio(q, c)
  <2>1. owner' = owner
    BY <1>4 DEF Steps, vars, amigaVars, Interrupts, OpenDone, BeginDone, AbortDone, CloseDone, NotifySends,
     ResetAborts, ResetTellsThread, ResetCloses, ResetClears, hardfile_open, hardfile_close, notify_send,
     hardfile_abortio, DevStart, DevRead, DevLock, DevWork, DevAdded, Routine,
     DevReply, DevUnlock, DevDie, DevGone, SocketSignals, SocketSends
  <2> QED BY <2>1
<1> QED BY <1>1, <1>2, <1>3, <1>4

\* Only this boot's requests are in the unit, but while it is reset.
LEMMA BootsStay ==
  ASSUME Types, Parts, Boots, Steps
  PROVE  Boots'
<1> SUFFICES ASSUME NEW x \in IoReq
             PROVE  /\ \A p \in Places : In(p, x)' => x.boot <= boot' /\ (Resetting' => x.boot < boot')
                    /\ \A p \in {"pipe", "thread"} : In(p, x)' /\ ~ Resetting' => x.boot = boot'
  BY DEF Boots
<1>0. x.boot \in Nat /\ boot \in Nat /\ Types' /\ {"pipe", "thread"} \subseteq Places
  BY StepsKeepTypes DEF IoReq, Types, Lives, AmigaTypes, Places
<1>1. /\ \A p \in Places : In(p, x) => x.boot <= boot /\ (Resetting => x.boot < boot)
      /\ \A p \in {"pipe", "thread"} : In(p, x) /\ ~ Resetting => x.boot = boot
  BY DEF Boots
<1>2. OtherSteps => \A p \in Places : In(p, x)' => In(p, x)
  BY OthersAreCalm DEF Calm
<1>3. CASE Reset /\ OtherSteps /\ boot' = boot + 1 /\ ~ Resetting /\ Resetting'
  <2>1. \A p \in Places : In(p, x)' => x.boot <= boot
    BY <1>1, <1>2, <1>3
  <2>2. x.boot <= boot => x.boot < boot' /\ x.boot <= boot'
    BY <1>0, <1>3
  <2> QED BY <1>3, <2>1, <2>2
<1>4. CASE ResetClears /\ OtherSteps /\ boot' = boot /\ Resetting /\ ~ Resetting'
  <2>1. \A p \in Places : In(p, x)' => x.boot <= boot
    BY <1>1, <1>2, <1>4
  <2>2. requests' = <<>> /\ dev' = dev /\ dev.at = "none"
    BY <1>4 DEF ResetClears, Emu, Types, Lives, Life, Gone
  <2>3. ~ In("pipe", x)' /\ ~ In("thread", x)'
    BY <2>2 DEF In, InThePipe, Has, AtTheThread, AtWork
  <2> QED BY <1>4, <2>1, <2>3
<1>5. CASE boot' = boot /\ (Resetting' <=> Resetting)
  <2>1. CASE Calm(x)
    BY <1>0, <1>1, <1>5, <2>1 DEF Calm
  <2>2. CASE Goes("pipe", "thread", x)
    BY <1>0, <1>1, <1>5, <2>2 DEF Goes
  <2>3. CASE Goes("thread", "write", x)
    BY <1>0, <1>1, <1>5, <2>3 DEF Goes
  <2>4. CASE Goes("write", "way", x) \/ Goes("way", "server", x)
    <3>1. \E p \in Places : In(p, x)
      BY <2>4 DEF Goes, Places
    <3>2. \A p \in {"pipe", "thread"} : In(p, x)' => In(p, x)
      BY <2>4 DEF Goes, Places
    <3> QED BY <1>1, <1>5, <3>1, <3>2
  <2>5. CASE Enters(x)
    <3>1. x.boot = boot /\ ~ Resetting
      BY <2>5 DEF Enters, BeginDone, Emu, Tok, Resetting
    <3> QED BY <1>0, <1>5, <3>1
  <2> QED BY <2>1, <2>2, <2>3, <2>4, <2>5, Movement
<1> QED BY <1>3, <1>4, <1>5, BootSteps

\* A request is in one place, whatever moves it.
LEMMA OnePlaceStays ==
  ASSUME Types, Parts, Boots, Boots', OnePlace, Fresh, Steps
  PROVE  OnePlace'
<1> SUFFICES ASSUME NEW r \in Requests
             PROVE  /\ Singles(Tok(r))'
                    /\ \A p, q \in Places : In(p, Tok(r))' /\ In(q, Tok(r))' => p = q
                    /\ owner'[r] = "Amiga" => \A p \in Places : ~ In(p, Tok(r))'
  BY DEF OnePlace
<1>0. boot \in Nat /\ boot' \in Nat /\ owner \in [Requests -> {"Amiga", "device"}]
  BY StepsKeepTypes DEF Types, Lives, AmigaTypes
<1>1. CASE Reset /\ OtherSteps /\ boot' = boot + 1 /\ ~ Resetting /\ Resetting'
  <2>1. Tok(r)' \in IoReq /\ Tok(r)'.boot = boot'
    BY <1>0 DEF Tok, IoReq
  <2>2. \A p \in Places : ~ In(p, Tok(r))'
    BY <1>0, <1>1, <2>1 DEF Boots
  <2>3. ~ Has(requests', Tok(r)') /\ ~ Has(native2amiga_pending', Reply(Tok(r)'))
    BY <2>2 DEF In, Places, InThePipe, OnTheWay
  <2>4. Singles(Tok(r))'
    BY <2>3 DEF Singles, Single, Has
  <2> QED BY <2>2, <2>4
<1>2. CASE boot' = boot
  <2> DEFINE x == Tok(r)
  <2>1. x \in IoReq /\ Tok(r)' = x
    BY <1>0, <1>2 DEF Tok, IoReq
  <2>2. /\ Singles(x)
        /\ \A p, q \in Places : In(p, x) /\ In(q, x) => p = q
        /\ owner[r] = "Amiga" => \A p \in Places : ~ In(p, x)
    BY DEF OnePlace
  <2>3. PICK y \in IoReq : y = x
    BY <2>1
  <2>4. /\ Singles(y)
        /\ \A p, q \in Places : In(p, y) /\ In(q, y) => p = q
        /\ owner[r] = "Amiga" => \A p \in Places : ~ In(p, y)
    BY <2>2, <2>3
  <2>5. SUFFICES /\ Singles(y)'
                 /\ \A p, q \in Places : In(p, y)' /\ In(q, y)' => p = q
                 /\ owner'[r] = "Amiga" => \A p \in Places : ~ In(p, y)'
    BY <2>1, <2>3
  <2>6. y = Tok(r)
    BY <2>3
  <2> HIDE DEF x
  <2>7. owner'[r] = "Amiga" => owner[r] = "Amiga" \/ (OtherSteps /\ In("server", y) /\ ~ In("server", y)')
    <3> SUFFICES ASSUME owner'[r] = "Amiga", owner[r] # "Amiga"
                 PROVE  OtherSteps /\ In("server", y) /\ ~ In("server", y)'
      OBVIOUS
    <3>1. ~ Reset
      BY <1>0, <1>2 DEF Reset
    <3>2. OtherSteps /\ WithTheServer(Tok(r)) /\ ~ WithTheServer(Tok(r))'
      BY <3>1, OwnerSteps
    <3>3. Tok(r) = y /\ Tok(r)' = y
      BY <1>2, <2>6 DEF Tok
    <3>4. WithTheServer(Tok(r)) => WithTheServer(y)
      BY <3>3
    <3>5. WithTheServer(y)' => WithTheServer(Tok(r))'
      BY <3>3 DEF WithTheServer
    <3> QED BY <3>2, <3>4, <3>5 DEF In
  <2> HIDE DEF x
  <2>8. CASE Calm(y)
    BY <2>4, <2>7, <2>8 DEF Calm, Places
  <2>9. ASSUME NEW a \in Places, NEW b \in Places, a # b, Goes(a, b, y), ~ OtherSteps
        PROVE  /\ Singles(y)'
               /\ \A p, q \in Places : In(p, y)' /\ In(q, y)' => p = q
               /\ owner'[r] = "Amiga" => \A p \in Places : ~ In(p, y)'
    BY <2>4, <2>7, <2>9 DEF Goes
  <2>10. CASE Enters(y)
    <3>1. BeginDone /\ y = Tok(emu.req) /\ emu.at = "begin"
      BY <2>10 DEF Enters, BeginDone, Emu
    <3>2. emu.req = r
      BY <2>6, <3>1 DEF Tok
    <3>3. owner[r] = "device" /\ owner' = owner
      BY <3>1, <3>2 DEF Fresh, BeginDone
    <3>4. \A p \in Places : ~ In(p, y)
      <4>1. \A p \in Places : ~ In(p, Tok(emu.req))
        BY <3>1 DEF Fresh
      <4> QED BY <3>1, <4>1
    <3> QED BY <2>4, <2>10, <3>3, <3>4 DEF Enters, Places
  <2>11. CASE Calm(y) \/ OtherSteps
    BY <2>8, <2>11, OthersAreCalm
  <2>12. CASE ~ OtherSteps
    BY <2>8, <2>9, <2>10, <2>12, Movement DEF Places
  <2> QED BY <2>11, <2>12
<1> QED BY <1>0, <1>1, <1>2, BootSteps

-----------------------------------------------------------------------------
(* The table, access by access: who is in it.                              *)

\* A routine moves its own thread's place in the table, not the other's.
LEMMA RoutineTouches ==
  ASSUME TableTypes, NEW t \in {"emu", "dev"}, Routine(t)
  PROVE  \A u \in {"emu", "dev"} \ {t} : access'[u] = access[u]
<1>1. \A b : First(t, b) => \A u \in {"emu", "dev"} \ {t} : access'[u] = access[u]
  BY DEF First, TableTypes
<1>2. \A step : Then(t, step) => \A u \in {"emu", "dev"} \ {t} : access'[u] = access[u]
  BY DEF Then, TableTypes
<1>3. \A b : NextSlot(t, b) => \A u \in {"emu", "dev"} \ {t} : access'[u] = access[u]
  <2> SUFFICES ASSUME NEW b, NextSlot(t, b) PROVE \A u \in {"emu", "dev"} \ {t} : access'[u] = access[u]
    OBVIOUS
  <2>1. CASE access[t].slot < MAX_ASYNC_REQUESTS
    BY <2>1 DEF NextSlot, TableTypes
  <2>2. CASE ~ (access[t].slot < MAX_ASYNC_REQUESTS)
    BY <1>1, <2>2 DEF NextSlot
  <2> QED BY <2>1, <2>2
<1>4. \/ (\E b : First(t, b)) \/ (\E step : Then(t, step)) \/ (\E b : NextSlot(t, b))
  BY DEF Routine, Wait, Seek, Store, Mark, Aborts
<1> QED BY ONLY <1>1, <1>2, <1>3, <1>4

\* Which steps move a thread's place in the table.
LEMMA AccessAlone ==
  ASSUME TableTypes, Steps
  PROVE  /\ access'["dev"] = access["dev"] \/ DevWork \/ DevAdded \/ Routine("dev")
         /\ \/ access'["emu"] = access["emu"] \/ BeginDone \/ ResetAborts \/ Routine("emu")
            \/ (\E r \in Requests : hardfile_abortio(r))
            \/ (\E r \in Requests, c \in Commands : hardfile_beginio(r, c))
<1>1. CASE Routine("emu") \/ Routine("dev")
  BY <1>1, RoutineTouches
<1>2. CASE DevWork \/ DevAdded
  <2>1. access' = access \/ \E b : First("dev", b)
    BY <1>2 DEF DevWork, DevAdded, Adds, Releases
  <2> QED BY <1>2, <2>1 DEF First, TableTypes
<1>3. CASE \/ BeginDone \/ ResetAborts \/ (\E r \in Requests : hardfile_abortio(r))
           \/ (\E r \in Requests, c \in Commands : hardfile_beginio(r, c))
  <2>1. access' = access \/ \E b : First("emu", b)
    BY <1>3 DEF BeginDone, ResetAborts, hardfile_abortio, hardfile_beginio, Adds, Aborts
  <2> QED BY <1>3, <2>1 DEF First, TableTypes
<1>4. CASE /\ ~ (Routine("emu") \/ Routine("dev") \/ DevWork \/ DevAdded \/ BeginDone \/ ResetAborts)
           /\ ~ \E r \in Requests : hardfile_abortio(r)
           /\ ~ \E r \in Requests, c \in Commands : hardfile_beginio(r, c)
  <2>1. access' = access
    BY <1>4 DEF Steps, vars, privdata, table, Interrupts, Deliver, OpenDone, AbortDone, CloseDone, NotifySends,
       ResetTellsThread, ResetCloses, ResetClears, hardfile_open, hardfile_close, Reset, notify_send, DevStart,
       DevRead, DevLock, DevReply, DevUnlock, DevDie, DevGone, SocketSignals, SocketSends
  <2> QED BY <2>1
<1> QED BY <1>1, <1>2, <1>3, <1>4

\* A routine goes on until it is through; a wait becomes a release.
LEMMA RoutineGoesOn ==
  ASSUME TableTypes, NEW t \in {"emu", "dev"}, Routine(t), NEW r, NEW type \in Kinds
  PROVE  /\ ~ Returned(t)
         /\ Uses(t, r, type) => Uses(t, r, type)' \/ access'[t] = Done \/ (access'[t] = Full /\ type # "NONE")
         /\ Waits(t, r) => Waits(t, r)' \/ Uses(t, r, "NONE")'
<1> DEFINE a == access[t]
<1>0. /\ a \in Accesses /\ access \in [{"emu", "dev"} -> Accesses]
  BY DEF TableTypes
<1>1. ASSUME NEW b, First(t, b) PROVE access'[t] = b
  BY <1>0, <1>1 DEF First
<1>2. ASSUME NEW step, Then(t, step) PROVE access'[t].step = step /\ access'[t].req = a.req /\ access'[t].type = a.type
  <2>1. access'[t] = [a EXCEPT !.step = step]
    BY <1>0, <1>2 DEF Then
  <2> QED BY <1>0, <2>1 DEF Accesses
<1>3. ASSUME NEW b, NextSlot(t, b)
      PROVE  \/ access'[t].step = a.step /\ access'[t].req = a.req /\ access'[t].type = a.type
             \/ access'[t] = b
  <2>1. CASE a.slot < MAX_ASYNC_REQUESTS
    <3>1. access'[t] = [a EXCEPT !.slot = a.slot + 1]
      BY <1>0, <1>3, <2>1 DEF NextSlot
    <3> QED BY <1>0, <3>1 DEF Accesses
  <2>2. CASE ~ (a.slot < MAX_ASYNC_REQUESTS)
    BY <1>1, <1>3, <2>2 DEF NextSlot
  <2> QED BY <2>1, <2>2
<1>4. \A step, q, k : /\ Access(step, q, k).step = step /\ Access(step, q, k).req = q /\ Access(step, q, k).type = k
  BY DEF Access
<1>5. ~ Returned(t)
  BY DEF Routine, Wait, Seek, Store, Mark, Returned
<1>6. ASSUME Uses(t, r, type)
      PROVE  Uses(t, r, type)' \/ access'[t] = Done \/ (access'[t] = Full /\ type # "NONE")
  <2>1. a.req = r /\ a.type = type /\ a.step # "wait"
    BY <1>6 DEF Uses
  <2>2. CASE Seek(t)
    <3>1. \/ Then(t, "store") \/ (Then(t, "mark") /\ type # "NONE")
          \/ a.step = "free" /\ NextSlot(t, Full)
          \/ a.step = "find" /\ type # "NONE" /\ NextSlot(t, Access("free", r, type))
          \/ a.step = "find" /\ type = "NONE" /\ NextSlot(t, Done)
      BY <2>1, <2>2 DEF Seek
    <3>2. a.step = "free" => type # "NONE"
      BY <1>6 DEF Uses
    <3>3. CASE Then(t, "store") \/ Then(t, "mark")
      BY <1>2, <2>1, <3>3 DEF Uses
    <3>4. CASE a.step = "free" /\ NextSlot(t, Full)
      BY <1>3, <2>1, <3>2, <3>4 DEF Uses
    <3>5. CASE a.step = "find" /\ type # "NONE" /\ NextSlot(t, Access("free", r, type))
      BY <1>3, <1>4, <2>1, <3>5 DEF Uses
    <3>6. CASE a.step = "find" /\ type = "NONE" /\ NextSlot(t, Done)
      BY <1>3, <2>1, <3>6 DEF Uses
    <3> QED BY ONLY <3>1, <3>3, <3>4, <3>5, <3>6
  <2>3. CASE Store(t)
    BY <1>2, <2>1, <2>3 DEF Store, Uses
  <2>4. CASE Mark(t)
    BY <1>1, <2>4 DEF Mark
  <2>5. ~ Wait(t)
    BY <2>1 DEF Wait
  <2> QED BY <2>2, <2>3, <2>4, <2>5 DEF Routine
<1>7. ASSUME Waits(t, r) PROVE Waits(t, r)' \/ Uses(t, r, "NONE")'
  <2>1. a.step = "wait" /\ a.req = r /\ a.type = "NONE"
    BY <1>7 DEF Waits
  <2>2. Wait(t)
    BY <2>1 DEF Routine, Wait, Seek, Store, Mark
  <2>3. First(t, Access("wait", r, "NONE")) \/ NextSlot(t, Access("find", r, "NONE"))
    BY <2>1, <2>2 DEF Wait, Aborts
  <2> QED BY <1>1, <1>3, <1>4, <2>1, <2>3 DEF Waits, Uses
<1> QED BY <1>5, <1>6, <1>7

\* The unit's thread is in the table for its request, while it adds or releases it.
LEMMA DevUsesStays ==
  ASSUME Types, DevUses, Steps
  PROVE  DevUses'
<1>0. TableTypes /\ DevTypes /\ DevTypes' /\ Life
  BY StepsKeepTypes DEF Types, Lives
<1>1. {"add", "release", "unlock"} \subseteq DevPC /\ {"CHANGEINT", "NONE"} \subseteq Kinds
  BY DEF DevPC, Kinds
<1>2. PICK r : r = dev.req.req
  OBVIOUS
<1>3. Done # Full /\ Done.step = "done" /\ Full.step = "full"
  BY DEF Done, Full, Access
<1>4. ASSUME NEW type, First("dev", Access("find", r, type)) PROVE Uses("dev", r, type)'
  <2>1. access'["dev"] = Access("find", r, type)
    BY <1>0, <1>4 DEF First, TableTypes
  <2> QED BY <2>1 DEF Uses, Access
<1>5. dev'.req = dev.req => \A type : Uses("dev", r, type)' <=> Uses("dev", dev.req.req, type)'
  BY <1>2
<1>6. CASE DevWork
  <2>1. \/ First("dev", Access("find", r, "CHANGEINT")) /\ dev' = [dev EXCEPT !.at = "add"]
        \/ First("dev", Access("find", r, "NONE")) /\ dev' = [dev EXCEPT !.at = "release"]
    BY <1>2, <1>6 DEF DevWork, Adds, Releases
  <2>2. \/ Uses("dev", r, "CHANGEINT")' /\ dev'.at = "add" /\ dev'.req = dev.req
        \/ Uses("dev", r, "NONE")' /\ dev'.at = "release" /\ dev'.req = dev.req
    BY <1>0, <1>1, <1>4, <2>1, DevMoves
  <2> QED BY <1>5, <2>2 DEF DevUses
<1>7. CASE DevAdded
  <2>1. dev.at = "add" /\ Returned("dev")
    BY <1>7 DEF DevAdded
  <2>2. access["dev"] \in {Done, Full}
    BY <2>1 DEF DevUses, Uses, Returned
  <2>3. CASE access["dev"] = Full
    <3>1. First("dev", Access("find", r, "NONE")) /\ dev' = [dev EXCEPT !.at = "release"]
      BY <1>2, <1>7, <2>3 DEF DevAdded, Releases
    <3>2. Uses("dev", r, "NONE")' /\ dev'.at = "release" /\ dev'.req = dev.req
      BY <1>0, <1>1, <1>4, <3>1, DevMoves
    <3> QED BY <1>5, <3>2 DEF DevUses
  <2>4. CASE access["dev"] # Full
    <3>1. access' = access /\ dev' = [dev EXCEPT !.at = "unlock"]
      BY <1>7, <2>4 DEF DevAdded
    <3>2. dev'.at = "unlock"
      BY <1>0, <1>1, <3>1, DevMoves
    <3> QED BY <2>2, <2>4, <3>1, <3>2 DEF DevUses
  <2> QED BY <2>3, <2>4
<1>8. CASE Routine("dev")
  <2>1. dev' = dev
    BY <1>8 DEF Routine
  <2>2. \A type \in {"CHANGEINT", "NONE"} :
          Uses("dev", r, type) => Uses("dev", r, type)' \/ access'["dev"] = Done \/ (access'["dev"] = Full /\ type # "NONE")
    BY <1>0, <1>1, <1>8, RoutineGoesOn
  <2>3. access["dev"] # Done /\ access["dev"] # Full
    BY <1>0, <1>3, <1>8, RoutineGoesOn DEF Returned, Kinds
  <2>4. CASE dev.at = "add"
    <3>1. Uses("dev", r, "CHANGEINT")
      BY <1>2, <2>3, <2>4 DEF DevUses
    <3> QED BY <1>5, <2>1, <2>2, <2>4, <3>1 DEF DevUses
  <2>5. CASE dev.at = "release"
    <3>1. Uses("dev", r, "NONE")
      BY <1>2, <2>3, <2>5 DEF DevUses
    <3> QED BY <1>5, <2>1, <2>2, <2>5, <3>1 DEF DevUses
  <2> QED BY <2>3, <2>4, <2>5 DEF DevUses
<1>9. CASE DevReply
  <2>1. access["dev"] = Done
    BY <1>9 DEF DevReply, Dev, Returned, DevUses, Uses
  <2>2. access' = access
    BY <1>9 DEF DevReply, privdata, table
  <2>3. dev'.at = "sending"
    BY <1>0, <1>9, DevMoves DEF DevReply, Dev, DevPC
  <2> QED BY <2>1, <2>2, <2>3 DEF DevUses
<1>10. CASE DevStart \/ DevRead \/ DevLock \/ DevUnlock \/ DevDie
  <2>1. access["dev"] = Done /\ access' = access
    BY <1>10 DEF DevStart, DevRead, DevLock, DevUnlock, DevDie, Dev, privdata, table, DevUses
  <2>2. dev'.at \notin {"add", "release"}
    BY <1>0, <1>10, DevMoves DEF DevStart, DevRead, DevLock, DevUnlock, DevDie, Dev, At, DevPC
  <2> QED BY <2>1, <2>2 DEF DevUses
<1>11. CASE hardfile_open
  <2>1. access' = access /\ (dev' = dev \/ (thread_running # 1 /\ dev'.at = "start")) /\ emu.at = "cpu"
    BY <1>11 DEF hardfile_open, table, At, Amiga
  <2>2. thread_running # 1 => dev.at = "none"
    BY <1>0, <2>1 DEF Life, Gone, Alive
  <2> QED BY <2>1, <2>2 DEF DevUses, Uses
<1>12. CASE ~ (DevStep \/ hardfile_open \/ Routine("dev"))
  <2>1. dev' = dev /\ access'["dev"] = access["dev"]
    BY <1>0, <1>12, DevAlone, AccessAlone DEF DevStep
  <2> QED BY <2>1 DEF DevUses, Uses
<1> QED BY <1>6, <1>7, <1>8, <1>9, <1>10, <1>11, <1>12 DEF DevStep

\* How the emulator thread comes to the table, and leaves it.
LEMMA EmuMoves ==
  ASSUME Steps
  PROVE  \/ emu' = emu
         \/ emu.at \notin {"begin", "abort", "reset"} /\ emu'.at \notin {"begin", "abort", "reset"}
         \/ BeginDone \/ AbortDone \/ Reset \/ ResetAborts \/ ResetTellsThread
         \/ (\E r \in Requests : hardfile_abortio(r))
         \/ (\E r \in Requests, c \in Commands : hardfile_beginio(r, c))
<1>1. CASE OpenDone \/ CloseDone \/ ResetCloses \/ ResetClears
  BY <1>1 DEF OpenDone, CloseDone, ResetCloses, ResetClears, Emu, At
<1>2. CASE hardfile_open \/ hardfile_close \/ notify_send \/ NotifySends
  BY <1>2 DEF hardfile_open, hardfile_close, notify_send, NotifySends, Amiga, At
<1>3. CASE ~ (OpenDone \/ CloseDone \/ ResetCloses \/ ResetClears \/ hardfile_open \/ hardfile_close \/ notify_send
              \/ NotifySends)
  BY <1>3 DEF Steps, vars, Interrupts, Deliver, Routine, DevStart, DevRead, DevLock, DevWork, DevAdded, DevReply,
     DevUnlock, DevDie, DevGone, SocketSignals, SocketSends
<1> QED BY <1>1, <1>2, <1>3

\* The emulator thread is in the table for the request it sends or aborts.
LEMMA EmuUsesStays ==
  ASSUME Types, EmuUses, Steps
  PROVE  EmuUses'
<1>0. TableTypes
  BY DEF Types, Lives
<1>1. {"TEMP", "NONE"} \subseteq Kinds
  BY DEF Kinds
<1>2. Done # Full /\ Done.step = "done" /\ Full.step = "full"
  BY DEF Done, Full, Access
<1>3. ASSUME NEW b, First("emu", b) PROVE access'["emu"] = b
  BY <1>0, <1>3 DEF First, TableTypes
<1>4. ASSUME NEW r \in Requests, NEW c \in Commands, hardfile_beginio(r, c) PROVE EmuUses'
  <2>1. access'["emu"] = Access("find", r, "TEMP") /\ emu' = At("begin", r)
    BY <1>3, <1>4 DEF hardfile_beginio, Adds
  <2> QED BY <2>1 DEF EmuUses, Uses, Access, At
<1>5. ASSUME NEW r \in Requests, hardfile_abortio(r) PROVE EmuUses'
  <2>1. access'["emu"] = Access("wait", r, "NONE") /\ emu' = At("abort", r)
    BY <1>3, <1>5 DEF hardfile_abortio, Aborts
  <2> QED BY <2>1 DEF EmuUses, Waits, Access, At
<1>6. CASE BeginDone
  <2>1. access'["emu"] = Done /\ emu'.at = "cpu"
    BY <1>3, <1>6 DEF BeginDone, Emu, At
  <2> QED BY <2>1 DEF EmuUses
<1>7. CASE AbortDone \/ ResetTellsThread
  <2>1. access' = access /\ Returned("emu") /\ emu.at \in {"abort", "reset"} /\ emu'.at \in {"cpu", "reset_close"}
    BY <1>7 DEF AbortDone, ResetTellsThread, Emu, At, privdata, table
  <2>2. access["emu"] = Done
    BY <2>1 DEF EmuUses, Uses, Waits, Returned
  <2> QED BY <2>1, <2>2 DEF EmuUses
<1>8. CASE Reset
  <2>1. access' = access /\ emu.at = "cpu" /\ emu'.at \in {"reset", "reset_clear"}
    BY <1>8 DEF Reset, At, Round, privdata, table
  <2> QED BY <2>1 DEF EmuUses
<1>9. CASE ResetAborts
  <2>1. emu'.at = "reset" /\ emu.at = "reset" /\ Returned("emu")
    BY <1>9 DEF ResetAborts, Round
  <2>2. access' = access \/ access'["emu"] = Access("wait", d_request[Unit], "NONE")
    BY <1>3, <1>9 DEF ResetAborts, Aborts
  <2>3. access["emu"] = Done
    BY <2>1 DEF EmuUses, Uses, Waits, Returned
  <2>4. access'["emu"] = Access("wait", d_request[Unit], "NONE") => Waits("emu", d_request[Unit])'
    <3> SUFFICES ASSUME access'["emu"] = Access("wait", d_request[Unit], "NONE"), d_request' = d_request
                 PROVE  Waits("emu", d_request[Unit])'
      BY <1>9 DEF ResetAborts
    <3> QED BY DEF Waits, Access
  <2>5. Waits("emu", d_request[Unit])' => \E r : Waits("emu", r)'
    BY DEF Waits
  <2> QED BY <2>1, <2>2, <2>3, <2>4, <2>5 DEF EmuUses
<1>10. CASE Routine("emu")
  <2>1. emu' = emu
    BY <1>10 DEF Routine
  <2>2. \A r : \A type \in {"TEMP", "NONE"} :
          /\ Uses("emu", r, type) => Uses("emu", r, type)' \/ access'["emu"] = Done \/ (access'["emu"] = Full /\ type # "NONE")
          /\ Waits("emu", r) => Waits("emu", r)' \/ Uses("emu", r, "NONE")'
    BY <1>0, <1>1, <1>10, RoutineGoesOn
  <2>3. access["emu"] # Done /\ access["emu"] # Full
    BY <1>0, <1>2, <1>10, RoutineGoesOn DEF Returned, Kinds
  <2>4. PICK r : r = emu.req
    OBVIOUS
  <2>5. emu'.req = r /\ emu'.at = emu.at
    BY <2>1, <2>4
  <2>6. CASE emu.at = "begin"
    <3>1. Uses("emu", r, "TEMP")
      BY <2>3, <2>4, <2>6 DEF EmuUses
    <3>2. Uses("emu", r, "TEMP")' => Uses("emu", emu.req, "TEMP")'
      BY <2>5
    <3> QED BY <2>2, <2>5, <2>6, <3>1, <3>2 DEF EmuUses
  <2>7. CASE emu.at = "abort"
    <3>1. Uses("emu", r, "NONE") \/ Waits("emu", r)
      BY <2>3, <2>4, <2>7 DEF EmuUses
    <3>2. /\ Uses("emu", r, "NONE")' => Uses("emu", emu.req, "NONE")'
          /\ Waits("emu", r)' => Waits("emu", emu.req)'
      BY <2>5
    <3> QED BY <2>2, <2>5, <2>7, <3>1, <3>2 DEF EmuUses
  <2>8. CASE emu.at = "reset"
    <3>1. PICK q : Uses("emu", q, "NONE") \/ Waits("emu", q)
      BY <2>3, <2>8 DEF EmuUses
    <3>2. Uses("emu", q, "NONE")' \/ Waits("emu", q)' \/ access'["emu"] = Done
      BY <2>2, <3>1
    <3> QED BY <2>5, <2>8, <3>2 DEF EmuUses
  <2> QED BY <2>3, <2>6, <2>7, <2>8 DEF EmuUses
<1>11. CASE /\ ~ (BeginDone \/ AbortDone \/ Reset \/ ResetAborts \/ ResetTellsThread \/ Routine("emu"))
            /\ ~ \E r \in Requests : hardfile_abortio(r)
            /\ ~ \E r \in Requests, c \in Commands : hardfile_beginio(r, c)
  <2>1. access'["emu"] = access["emu"]
    BY <1>0, <1>11, AccessAlone
  <2>2. \/ emu' = emu
        \/ emu.at \notin {"begin", "abort", "reset"} /\ emu'.at \notin {"begin", "abort", "reset"}
    BY <1>11, EmuMoves
  <2> QED BY <2>1, <2>2 DEF EmuUses, Uses, Waits
<1> QED BY <1>4, <1>5, <1>6, <1>7, <1>8, <1>9, <1>10, <1>11

-----------------------------------------------------------------------------
(* The table: whose request is marked in it.                               *)

\* What is in a sequence once is counted once.
LEMMA CountedOnce ==
  ASSUME NEW S, NEW q \in Seq(S), NEW y, Single(q, y)
  PROVE  Cardinality({i \in 1 .. Len(q) : q[i] = y}) = IF Has(q, y) THEN 1 ELSE 0
<1> DEFINE C == {i \in 1 .. Len(q) : q[i] = y}
<1>1. CASE Has(q, y)
  <2>1. PICK k \in 1 .. Len(q) : q[k] = y
    BY <1>1 DEF Has
  <2>2. C = {k}
    BY <2>1 DEF Single
  <2> QED BY <1>1, <2>2, FS_Singleton
<1>2. CASE ~ Has(q, y)
  <2>1. C = {}
    BY <1>2 DEF Has
  <2> QED BY <1>2, <2>1, FS_EmptySet
<1> QED BY <1>1, <1>2

\* A request in work is in the thread's hands: the death message is no request.
LEMMA WorkIsAtTheThread ==
  ASSUME DevTypes, NEW r \in Requests
  PROVE  InWork(r) <=> AtTheThread(Tok(r))
<1>1. dev.at \in {"start", "die"} => dev.req.req = None
  BY DEF DevTypes, Death
<1>2. dev.req = Tok(r) => dev.req.req # None
  BY HardfileAssumption DEF Tok
<1>3. dev.at \in DevPC
  BY DEF DevTypes
<1> QED BY <1>1, <1>2, <1>3 DEF InWork, AtTheThread, Tok, DevPC, AtWork

\* The places of a request are what the properties count.
LEMMA PlacesAreCounted ==
  ASSUME Types, NEW r \in Requests, Singles(Tok(r)), NEW x, x = Tok(r)
  PROVE  /\ Cardinality(InPipe(r)) = IF InThePipe(x) THEN 1 ELSE 0
         /\ InPipe(r) = {} <=> ~ InThePipe(x)
         /\ InWork(r) <=> AtTheThread(x)
         /\ Replies(r) = (IF OnTheWay(x) THEN 1 ELSE 0) + (IF WithTheServer(x) THEN 1 ELSE 0) + (IF ToWrite(x) THEN 1 ELSE 0)
<1>1. Singles(x)
  OBVIOUS
<1>2. InPipe(r) = {i \in 1 .. Len(requests) : requests[i] = x}
  BY DEF InPipe, Tok
<1>3. requests \in Seq(IoReq \cup {Death}) /\ Single(requests, x)
  BY <1>1 DEF Types, Lives, ThreadTypes, Singles
<1>4. Cardinality(InPipe(r)) = IF InThePipe(x) THEN 1 ELSE 0
  BY <1>2, <1>3, CountedOnce DEF InThePipe
<1>5. InPipe(r) = {} <=> ~ InThePipe(x)
  BY <1>2 DEF InThePipe, Has
<1>6. InWork(r) <=> AtTheThread(x)
  <2>1. InWork(r) <=> AtTheThread(Tok(r))
    BY WorkIsAtTheThread DEF Types, Lives
  <2> QED BY <2>1
<1>7. Replies(r) = (IF OnTheWay(x) THEN 1 ELSE 0) + (IF WithTheServer(x) THEN 1 ELSE 0) + (IF ToWrite(x) THEN 1 ELSE 0)
  <2>1. native2amiga_pending \in Seq(Entry) /\ Single(native2amiga_pending, Reply(x))
    BY <1>1 DEF Types, CallInv, CallTypes, Singles
  <2>2. Cardinality({i \in 1 .. Len(native2amiga_pending) : native2amiga_pending[i] = Reply(x)})
          = IF OnTheWay(x) THEN 1 ELSE 0
    BY <2>1, CountedOnce DEF OnTheWay
  <2> QED BY <2>2 DEF Replies, WithTheServer, ToWrite, Reply, Tok
<1> QED BY <1>4, <1>5, <1>6, <1>7

\* BeginIO's request is the device's, and nowhere until it is sent.
LEMMA FreshStays ==
  ASSUME Types, Parts, OnePlace, Fresh, Steps
  PROVE  Fresh'
<1> SUFFICES ASSUME emu'.at = "begin"
             PROVE  owner'[emu'.req] = "device" /\ \A p \in Places : ~ In(p, Tok(emu.req))'
  BY DEF Fresh, Places
<1>0. owner \in [Requests -> {"Amiga", "device"}] /\ boot \in Nat /\ emu \in EmuStates
  BY DEF Types, Lives, AmigaTypes, ThreadTypes
<1>1. owner' \in [Requests -> {"Amiga", "device"}] /\ emu' \in EmuStates
  BY StepsKeepTypes DEF Types, Lives, AmigaTypes, ThreadTypes
<1>2. PICK r \in Requests : r = emu'.req
  BY <1>1 DEF EmuStates
<1>3. ~ Reset /\ ~ BeginDone
  BY DEF Reset, BeginDone, Emu, At, Round
<1>4. boot' = boot
  BY <1>3, BootSteps
<1>5. PICK x \in IoReq : x = Tok(r)
  BY <1>0 DEF Tok, IoReq
<1>6. SUFFICES owner'[r] = "device" /\ \A p \in Places : ~ In(p, x)'
  <2>1. Tok(emu.req)' = x
    BY <1>2, <1>4, <1>5 DEF Tok
  <2> QED BY <1>2, <2>1
<1>7. CASE emu' = emu
  <2>1. owner[r] = "device" /\ \A p \in Places : ~ In(p, x)
    BY <1>2, <1>5, <1>7 DEF Fresh
  <2>2. owner'[r] = "device"
    <3>1. ~ WithTheServer(x)
      BY <2>1 DEF In, Places
    <3>2. ~ WithTheServer(Tok(r))
      BY <1>5, <3>1
    <3> QED BY <1>1, <1>3, <2>1, <3>2, OwnerSteps
  <2>3. \A p \in Places : ~ In(p, x)'
    BY <1>3, <2>1, Movement DEF Calm, Goes, Enters, Places
  <2> QED BY <2>2, <2>3
<1>8. CASE \E q \in Requests, c \in Commands : hardfile_beginio(q, c)
  <2>1. PICK q \in Requests, c \in Commands : hardfile_beginio(q, c)
    BY <1>8
  <2>2. q = r /\ MaySend(r, c) /\ owner' = [owner EXCEPT ![r] = "device"] /\ OtherSteps
    BY <1>2, <2>1 DEF hardfile_beginio, At, OtherSteps
  <2>3. \A p \in Places : ~ In(p, x)
    <3>1. CASE owner[r] = "Amiga"
      BY <1>5, <3>1 DEF OnePlace
    <3>2. CASE owner[r] # "Amiga"
      <4>1. InPipe(r) = {} /\ dev.req.req # r /\ Replies(r) = 0
        BY <2>2, <3>2 DEF MaySend
      <4>2. Singles(Tok(r))
        BY DEF OnePlace
      <4>3. ~ InThePipe(x) /\ ~ OnTheWay(x) /\ ~ WithTheServer(x) /\ ~ ToWrite(x)
        BY <1>5, <4>1, <4>2, PlacesAreCounted
      <4>4. ~ AtTheThread(x)
        BY <1>5, <4>1 DEF AtTheThread, Tok
      <4> QED BY <4>3, <4>4 DEF In, Places
    <3> QED BY <3>1, <3>2
  <2>4. \A p \in Places : ~ In(p, x)'
    BY <2>2, <2>3, OthersAreCalm DEF Calm
  <2> QED BY <1>0, <2>2, <2>4
<1>9. emu' = emu \/ \E q \in Requests, c \in Commands : hardfile_beginio(q, c)
  <2>1. ~ (AbortDone \/ ResetAborts \/ ResetTellsThread \/ \E q \in Requests : hardfile_abortio(q))
    BY DEF AbortDone, ResetAborts, ResetTellsThread, hardfile_abortio, Emu, At, Round
  <2> QED BY <1>3, <2>1, EmuMoves
<1> QED BY <1>7, <1>8, <1>9

\* What is worked off stays so, while the thread has it.
LEMMA WorkedOffStays ==
  ASSUME Types, DevUses, Steps, WorkedOff
  PROVE  WorkedOff' \/ dev'.at \notin AtWork \cup {"lock"}
<1>0. TableTypes /\ DevTypes /\ Life /\ dev.at \in {"add", "release"}
  BY DEF Types, Lives, WorkedOff
<1>1. Done # Full /\ Done.step = "done"
  BY DEF Done, Full, Access
<1>2. CASE DevStart \/ DevRead \/ DevLock \/ DevWork \/ DevUnlock \/ DevDie
  BY <1>0, <1>2 DEF DevStart, DevRead, DevLock, DevWork, DevUnlock, DevDie, Dev
<1>3. CASE DevAdded
  <2>1. access["dev"] = Done
    BY <1>3 DEF DevAdded, WorkedOff
  <2>2. dev' = [dev EXCEPT !.at = "unlock"]
    BY <1>1, <1>3, <2>1 DEF DevAdded
  <2>3. dev'.at = "unlock"
    BY <1>0, <2>2, DevMoves DEF DevPC
  <2> QED BY <2>3 DEF AtWork
<1>4. CASE DevReply
  <2>1. dev'.at = "sending"
    BY <1>0, <1>4, DevMoves DEF DevReply, Dev, DevPC
  <2> QED BY <2>1 DEF AtWork
<1>5. CASE hardfile_open
  <2>1. emu.at = "cpu" /\ thread_running = 1
    BY <1>0, <1>5 DEF hardfile_open, Amiga, Life, Alive, Gone
  <2>2. dev' = dev /\ access' = access
    BY <1>5, <2>1 DEF hardfile_open, table
  <2> QED BY <2>2 DEF WorkedOff
<1>6. CASE Routine("dev")
  <2>1. ~ Returned("dev") /\ dev' = dev
    BY <1>0, <1>6, RoutineGoesOn DEF Routine, Kinds
  <2>2. dev.at = "release" /\ access["dev"].step = "mark"
    BY <1>1, <2>1 DEF WorkedOff, Returned
  <2>3. First("dev", Done)
    BY <1>6, <2>2 DEF Routine, Wait, Seek, Store, Mark
  <2>4. access'["dev"] = Done
    BY <1>0, <2>3 DEF First, TableTypes
  <2> QED BY <1>1, <2>1, <2>2, <2>4 DEF WorkedOff
<1>7. CASE ~ (DevStep \/ hardfile_open \/ Routine("dev"))
  <2>1. dev' = dev /\ access'["dev"] = access["dev"]
    BY <1>0, <1>7, DevAlone, AccessAlone DEF DevStep
  <2> QED BY <2>1 DEF WorkedOff
<1> QED BY <1>2, <1>3, <1>4, <1>5, <1>6, <1>7 DEF DevStep

\* What is to be worked off was so before, or is sent.
LEMMA AwaitedSince ==
  ASSUME Types, Parts, DevUses, Steps, NEW x \in IoReq, Awaited(x)'
  PROVE  Awaited(x) \/ (BeginDone /\ x = Tok(emu.req))
<1>1. In("pipe", x)' \/ (In("thread", x)' /\ ~ WorkedOff')
  BY DEF Awaited, In
<1>2. In("pipe", x) => Awaited(x)
  BY DEF In, Awaited
<1>3. In("thread", x) /\ ~ WorkedOff => Awaited(x)
  BY DEF In, Awaited
<1>4. In("thread", x)' => dev'.at \in AtWork \cup {"lock"}
  BY DEF In, AtTheThread
<1>5. In("thread", x)' /\ ~ WorkedOff' => ~ WorkedOff
  BY <1>4, WorkedOffStays
<1>6. CASE \A p \in {"pipe", "thread"} : In(p, x)' => In(p, x)
  BY <1>1, <1>2, <1>3, <1>5, <1>6
<1>7. \/ \A p \in {"pipe", "thread"} : In(p, x)' => In(p, x)
      \/ In("pipe", x)
      \/ BeginDone /\ x = Tok(emu.req)
  BY Movement DEF Calm, Goes, Enters, Places
<1> QED BY <1>2, <1>6, <1>7

\* Only the routines store in the table, but for its clearing.
LEMMA TableSteps ==
  ASSUME Steps
  PROVE  /\ \/ d_request' = d_request /\ d_request_type' = d_request_type
            \/ hardfile_open /\ requests' = <<>> /\ dev' = At("start", Death)
            \/ ResetClears \/ Routine("emu") \/ Routine("dev")
         /\ unmarked' = unmarked \/ Reset \/ BeginDone \/ Routine("emu") \/ Routine("dev")
<1>1. CASE Routine("emu") \/ Routine("dev") \/ ResetClears \/ hardfile_open
  BY <1>1 DEF hardfile_open, ResetClears, table, amigaVars
<1>2. CASE \/ OpenDone \/ BeginDone \/ AbortDone \/ CloseDone \/ NotifySends \/ ResetAborts \/ ResetTellsThread
           \/ ResetCloses \/ hardfile_close \/ Reset \/ notify_send
           \/ (\E r \in Requests : hardfile_abortio(r)) \/ (\E r \in Requests, c \in Commands : hardfile_beginio(r, c))
  BY <1>2 DEF OpenDone, BeginDone, AbortDone, CloseDone, NotifySends, ResetAborts, ResetTellsThread, ResetCloses,
     hardfile_close, Reset, notify_send, hardfile_abortio, hardfile_beginio, amigaVars, privdata, table
<1>3. CASE \/ Interrupts \/ Deliver \/ DevStart \/ DevRead \/ DevLock \/ DevWork \/ DevAdded \/ DevReply \/ DevUnlock
           \/ DevDie \/ DevGone \/ SocketSignals \/ SocketSends \/ UNCHANGED vars
           \/ (Send(Device) /\ UNCHANGED <<privdata, change_sem, dev, leaving, emu, amigaVars, counters>>)
  BY <1>3 DEF Interrupts, Deliver, DevStart, DevRead, DevLock, DevWork, DevAdded, DevReply, DevUnlock, DevDie,
     DevGone, SocketSignals, SocketSends, vars, amigaVars, privdata, table
<1> QED BY <1>1, <1>2, <1>3 DEF Steps

\* A mark in the table is lost to the routine that stores for another request,
\* which takes note, or that works off the request itself.
LEMMA MarkKept ==
  ASSUME TableTypes, NEW t \in {"emu", "dev"}, Routine(t), NEW r \in Requests, NEW i \in Slots, TempAt(i, r),
         r \notin unmarked'
  PROVE  \/ TempAt(i, r)'
         \/ /\ access[t].req = r /\ access[t].type # "TEMP" /\ access[t].step \in {"store", "mark"}
            /\ access'[t] = Done \/ (access[t].type = "NONE" /\ access'[t].step = "mark")
<1> DEFINE a == access[t]
<1>0. /\ a \in Accesses /\ access \in [{"emu", "dev"} -> Accesses] /\ r # None
      /\ d_request \in [Slots -> Requests \cup {None}] /\ d_request_type \in [Slots -> Kinds]
      /\ d_request[i] = r /\ d_request_type[i] = "TEMP"
  BY HardfileAssumption DEF TableTypes, TempAt
<1>1. a.slot \in Slots
  BY <1>0 DEF Accesses
<1>2. a.slot = i /\ r # a.req => r \in Overwritten(t)
  BY <1>0 DEF Overwritten
<1>3. CASE Wait(t) \/ Seek(t)
  BY <1>0, <1>3 DEF Wait, Seek, TempAt
<1>4. CASE Store(t)
  <2>1. /\ a.step = "store" /\ Then(t, "mark") /\ d_request_type' = d_request_type
        /\ d_request' = [d_request EXCEPT ![a.slot] = IF a.type = "NONE" THEN None ELSE a.req]
        /\ unmarked' = unmarked \cup Overwritten(t)
    BY <1>4 DEF Store
  <2>2. access'[t].step = "mark"
    BY <1>0, <2>1 DEF Then, Accesses
  <2>3. CASE a.slot # i
    BY <1>0, <1>1, <2>1, <2>3 DEF TempAt
  <2>4. CASE a.slot = i
    <3>1. a.req = r
      BY <1>2, <2>1, <2>4
    <3>2. CASE a.type = "NONE"
      BY <2>1, <2>2, <3>1, <3>2
    <3>3. CASE a.type # "NONE"
      BY <1>0, <2>1, <2>4, <3>1, <3>3 DEF TempAt
    <3> QED BY <3>2, <3>3
  <2> QED BY <2>3, <2>4
<1>5. CASE Mark(t)
  <2>1. /\ a.step = "mark" /\ First(t, Done) /\ d_request' = d_request
        /\ d_request_type' = [d_request_type EXCEPT ![a.slot] = a.type]
        /\ unmarked' = IF a.type = "TEMP" /\ d_request[a.slot] = a.req
                         THEN unmarked \ {a.req} ELSE unmarked \cup Overwritten(t)
    BY <1>5 DEF Mark
  <2>2. access'[t] = Done
    BY <1>0, <2>1 DEF First
  <2>3. CASE a.slot # i
    BY <1>0, <1>1, <2>1, <2>3 DEF TempAt
  <2>4. CASE a.slot = i
    <3>1. a.req = r
      BY <1>0, <1>2, <2>1, <2>4
    <3>2. CASE a.type = "TEMP"
      BY <1>0, <2>1, <2>4, <3>2 DEF TempAt
    <3> QED BY <2>1, <2>2, <3>1, <3>2
  <2> QED BY <2>3, <2>4
<1> QED BY <1>3, <1>4, <1>5 DEF Routine

\* Only BeginIO's entry takes a request out of those whose marks were lost.
LEMMA MarksLost ==
  ASSUME NEW t \in {"emu", "dev"}, Routine(t), NEW r, r \in unmarked, r \notin unmarked'
  PROVE  access[t].type = "TEMP" /\ access[t].req = r
BY DEF Routine, Wait, Seek, Store, Mark

\* The unit's thread is in the table for a request of this boot that it has.
LEMMA DevsRequest ==
  ASSUME Types, DevUses, Boots, OnePlace, ~ Resetting, Routine("dev")
  PROVE  /\ access["dev"].type # "TEMP" /\ access["dev"].req = dev.req.req /\ dev.at \in {"add", "release"}
         /\ dev.req = Tok(dev.req.req) /\ AtTheThread(dev.req) /\ ~ InThePipe(dev.req)
<1>0. TableTypes /\ DevTypes
  BY DEF Types, Lives
<1>1. access["dev"] # Done /\ access["dev"] # Full
  BY <1>0, RoutineGoesOn DEF Returned, Done, Full, Access, Kinds
<1>2. access["dev"].type # "TEMP" /\ access["dev"].req = dev.req.req /\ dev.at \in {"add", "release"}
  BY <1>1 DEF DevUses, Uses
<1>3. dev.req \in IoReq /\ AtTheThread(dev.req) /\ In("thread", dev.req)
  BY <1>0, <1>2 DEF DevTypes, AtWork, AtTheThread, In
<1>4. dev.req.boot = boot
  BY <1>3 DEF Boots
<1>5. PICK r \in Requests : r = dev.req.req
  BY <1>3 DEF IoReq
<1>6. dev.req = Tok(r)
  BY <1>3, <1>4, <1>5 DEF Tok, IoReq
<1>7. In("thread", Tok(r))
  BY <1>3, <1>6
<1>8. ~ In("pipe", Tok(r))
  BY <1>7 DEF OnePlace, Places
<1>9. ~ InThePipe(dev.req)
  BY <1>6, <1>8 DEF In
<1> QED BY <1>2, <1>3, <1>5, <1>6, <1>9

\* The unit's thread takes the mark off what it has worked off, not before.
LEMMA DevKeepsMarks ==
  ASSUME Types, DevUses, Boots, OnePlace, ~ Resetting, Routine("dev"),
         NEW r \in Requests, NEW i \in Slots, TempAt(i, r), r \notin unmarked', Awaited(Tok(r))'
  PROVE  TempAt(i, r)'
<1>0. TableTypes /\ dev' = dev /\ requests' = requests /\ boot' = boot
  BY DEF Types, Lives, Routine
<1> SUFFICES ASSUME ~ TempAt(i, r)' PROVE FALSE
  OBVIOUS
<1>1. /\ access["dev"].req = r
      /\ access'["dev"] = Done \/ (access["dev"].type = "NONE" /\ access'["dev"].step = "mark")
      /\ access["dev"].step \in {"store", "mark"}
  BY <1>0, MarkKept
<1>2. access["dev"].type # "TEMP" /\ dev.at \in {"add", "release"} /\ dev.req = Tok(r) /\ ~ InThePipe(dev.req)
  BY <1>1, DevsRequest
<1>3. dev.at = "add" => access["dev"].type # "NONE"
  <2>1. access["dev"] # Done /\ access["dev"] # Full
    BY <1>1 DEF Done, Full, Access
  <2> QED BY <2>1 DEF DevUses, Uses
<1>4. WorkedOff'
  BY <1>0, <1>1, <1>2, <1>3 DEF WorkedOff, Done, Access
<1>5. ~ InThePipe(Tok(r))'
  BY <1>0, <1>2 DEF InThePipe, Has, Tok
<1> QED BY <1>4, <1>5 DEF Awaited

\* What is awaited is marked.
LEMMA MarkedStays ==
  ASSUME Types, Parts, Boots, Boots', OnePlace, Users, Fresh, Marked, Entered, Waited, Steps
  PROVE  Marked'
<1> SUFFICES ASSUME NEW r \in Requests, r \notin unmarked', Awaited(Tok(r))'
             PROVE  Processing(r)'
  BY DEF Marked
<1>0. /\ TableTypes /\ boot \in Nat /\ boot' \in Nat /\ DevUses /\ EmuUses /\ emu \in EmuStates
  BY StepsKeepTypes DEF Types, Lives, AmigaTypes, ThreadTypes, Users
<1>1. boot' = boot /\ ~ Resetting /\ ~ Reset /\ ~ ResetClears
  <2>1. ~ Resetting'
    <3>1. Tok(r)' \in IoReq /\ Tok(r)'.boot = boot'
      BY <1>0 DEF Tok, IoReq
    <3>2. \E p \in Places : In(p, Tok(r))'
      BY DEF Awaited, In, Places
    <3> QED BY <1>0, <3>1, <3>2 DEF Boots
  <2>2. ~ ResetClears
    <3> SUFFICES ASSUME ResetClears PROVE FALSE
      OBVIOUS
    <3>1. requests' = <<>> /\ dev' = dev /\ dev.at = "none"
      BY DEF ResetClears, Emu, Types, Lives, Life, Gone
    <3> QED BY <3>1 DEF Awaited, InThePipe, Has, AtTheThread, AtWork
  <2> QED BY <1>0, <2>1, <2>2, BootSteps DEF Reset
<1>2. PICK x \in IoReq : x = Tok(r)
  BY <1>0 DEF Tok, IoReq
<1>3. Awaited(x)'
  <2>1. Tok(r)' = x
    BY <1>1, <1>2 DEF Tok
  <2> QED BY <2>1 DEF Awaited, InThePipe, AtTheThread, WorkedOff
<1>4. \A i \in Slots : TempAt(i, r)' => Processing(r)'
  BY DEF TempAt, Processing, Slots
<1>5. d_request' = d_request /\ d_request_type' = d_request_type /\ Processing(r) => Processing(r)'
  BY DEF Processing, Slots
<1>6. CASE BeginDone /\ emu.req = r
  <2>1. access["emu"] \in {Done, Full}
    BY <1>0, <1>6 DEF BeginDone, Emu, Returned, EmuUses, Uses
  <2>2. access["emu"] = Done /\ r \notin unmarked
    BY <1>6, <2>1 DEF BeginDone
  <2>3. Processing(r)
    BY <1>6, <2>2 DEF Entered, BeginDone, Emu
  <2> QED BY <1>5, <1>6, <2>3 DEF BeginDone
<1>7. CASE ~ (BeginDone /\ emu.req = r)
  <2>1. Awaited(x)
    <3>1. x = Tok(emu.req) => emu.req = r
      BY <1>2 DEF Tok
    <3> QED BY <1>0, <1>3, <1>7, <3>1, AwaitedSince
  <2>2. Awaited(Tok(r))
    BY <1>2, <2>1
  <2>3. emu.at = "begin" => emu.req # r
    <3> SUFFICES ASSUME emu.at = "begin", emu.req = r PROVE FALSE
      OBVIOUS
    <3>1. \A p \in Places : ~ In(p, Tok(emu.req))
      BY DEF Fresh
    <3>2. \A p \in Places : ~ In(p, x)
      BY <1>2, <3>1
    <3> QED BY <2>1, <3>2 DEF Awaited, In, Places
  <2>4. Routine("emu") => /\ access["emu"].type = "TEMP" => access["emu"].req # r
                          /\ access["emu"].step \in {"store", "mark"} /\ access["emu"].req = r => r \in unmarked
    <3> SUFFICES ASSUME Routine("emu")
                 PROVE  /\ access["emu"].type = "TEMP" => access["emu"].req # r
                        /\ access["emu"].step \in {"store", "mark"} /\ access["emu"].req = r => r \in unmarked
      OBVIOUS
    <3>1. access["emu"] # Done /\ access["emu"] # Full
      BY <1>0, RoutineGoesOn DEF Returned, Done, Full, Access, Kinds
    <3>2. emu.at \in {"begin", "abort"}
      BY <1>1, <3>1 DEF EmuUses, Resetting, Users
    <3>3. CASE emu.at = "begin"
      BY <2>3, <3>1, <3>3 DEF EmuUses, Uses, Users
    <3>4. CASE emu.at = "abort"
      <4>1. access["emu"].req = emu.req /\ access["emu"].type = "NONE"
        BY <3>1, <3>4 DEF EmuUses, Uses, Waits, Users
      <4>2. emu.req = r /\ r \notin unmarked => access["emu"].step = "wait"
        <5> SUFFICES ASSUME emu.req = r, r \notin unmarked PROVE access["emu"].step = "wait"
          OBVIOUS
        <5>1. Awaited(Tok(emu.req))
          BY <1>2, <2>1
        <5> QED BY <3>4, <5>1 DEF Waited
      <4> QED BY <4>1, <4>2
    <3> QED BY <3>2, <3>3, <3>4
  <2>5. r \notin unmarked
    <3> SUFFICES ASSUME r \in unmarked PROVE FALSE
      OBVIOUS
    <3>1. Routine("emu") \/ Routine("dev")
      BY <1>1, TableSteps DEF BeginDone
    <3>2. CASE Routine("emu")
      BY <2>4, <3>2, MarksLost
    <3>3. CASE Routine("dev")
      BY <1>0, <1>1, <3>3, MarksLost, DevsRequest
    <3> QED BY <3>1, <3>2, <3>3
  <2>6. Processing(r)
    BY <2>2, <2>5 DEF Marked
  <2>7. PICK i \in Slots : TempAt(i, r)
    BY <2>6 DEF Processing, TempAt
  <2>8. CASE hardfile_open /\ requests' = <<>> /\ dev' = At("start", Death)
    BY <1>3, <2>8 DEF Awaited, InThePipe, Has, AtTheThread, At, AtWork
  <2>9. CASE Routine("dev")
    BY <1>0, <1>1, <1>4, <2>7, <2>9, DevKeepsMarks
  <2>10. CASE Routine("emu")
    BY <1>0, <1>4, <2>4, <2>5, <2>7, <2>10, MarkKept
  <2> QED BY <1>1, <1>5, <2>6, <2>8, <2>9, <2>10, TableSteps
<1> QED BY <1>6, <1>7

\* What BeginIO enters is in its slot before it is marked, and marked after.
LEMMA EnteredStays ==
  ASSUME Types, Boots, OnePlace, Users, Fresh, Entered, Steps
  PROVE  Entered'
<1> SUFFICES ASSUME emu'.at = "begin", emu'.req \notin unmarked'
             PROVE  /\ access'["emu"].step = "mark" => d_request'[access'["emu"].slot] = emu'.req
                    /\ access'["emu"] = Done => Processing(emu.req)'
  BY DEF Entered
<1>0. /\ TableTypes /\ DevUses /\ EmuUses /\ emu \in EmuStates /\ Done # Full /\ Done.step = "done"
  BY DEF Types, Lives, ThreadTypes, Users, Done, Full, Access
<1>1. emu' = emu \/ \E q \in Requests, c \in Commands : hardfile_beginio(q, c)
  <2>1. ~ (AbortDone \/ BeginDone \/ Reset \/ ResetAborts \/ ResetTellsThread \/ \E q \in Requests : hardfile_abortio(q))
    BY DEF AbortDone, BeginDone, Reset, ResetAborts, ResetTellsThread, hardfile_abortio, Emu, At, Round
  <2> QED BY <2>1, EmuMoves
<1>2. CASE \E q \in Requests, c \in Commands : hardfile_beginio(q, c)
  <2>1. access'["emu"].step = "find"
    BY <1>0, <1>2 DEF hardfile_beginio, Adds, First, TableTypes, Access
  <2> QED BY <1>0, <2>1
<1>3. CASE emu' = emu
  <2>1. PICK r \in Requests : r = emu.req
    BY <1>0, <1>3 DEF EmuStates
  <2>2. emu.at = "begin" /\ r \notin unmarked' /\ r # None
    BY <1>3, <2>1, HardfileAssumption
  <2>3. Processing(emu.req)' <=> Processing(r)'
    BY <1>3, <2>1 DEF Processing, Slots
  <2>4. SUFFICES /\ access'["emu"].step = "mark" => d_request'[access'["emu"].slot] = r
                 /\ access'["emu"] = Done => Processing(r)'
    BY <1>3, <2>1, <2>3
  <2>5. r \notin unmarked =>
          /\ access["emu"].step = "mark" => d_request[access["emu"].slot] = r
          /\ access["emu"] = Done => \E i \in Slots : TempAt(i, r)
    BY <2>1, <2>2 DEF Entered, Processing, TempAt
  <2>6. \A i \in Slots : TempAt(i, r)' => Processing(r)'
    BY DEF TempAt, Processing, Slots
  <2>7. ~ Resetting /\ ~ Reset /\ ~ BeginDone /\ ~ ResetClears /\ ~ hardfile_open
    BY <1>3, <2>2 DEF Resetting, Reset, BeginDone, ResetClears, hardfile_open, Emu, Amiga, At
  <2>8. CASE Routine("emu")
    <3> DEFINE a == access["emu"]
    <3>1. a # Done /\ a # Full /\ a \in Accesses /\ access \in [{"emu", "dev"} -> Accesses]
      BY <1>0, <2>8, RoutineGoesOn DEF Returned, Full, Access, Kinds, TableTypes
    <3>2. a.req = r /\ a.type = "TEMP" /\ a.step \in {"find", "store", "mark", "free"} /\ a.slot \in Slots
      BY <2>1, <2>2, <3>1 DEF EmuUses, Uses, Users, Accesses
    <3>3. CASE Seek("emu")
      <4>1. \/ a.step = "find" /\ d_request[a.slot] = r /\ Then("emu", "mark")
            \/ Then("emu", "store")
            \/ NextSlot("emu", Full) \/ NextSlot("emu", Access("free", a.req, a.type))
        BY <3>2, <3>3 DEF Seek
      <4>2. d_request' = d_request
        BY <3>3 DEF Seek
      <4>3. CASE a.step = "find" /\ d_request[a.slot] = r /\ Then("emu", "mark")
        <5>1. access'["emu"].step = "mark" /\ access'["emu"].slot = a.slot
          BY <3>1, <4>3 DEF Then, Accesses
        <5> QED BY <1>0, <4>2, <4>3, <5>1
      <4>4. CASE Then("emu", "store")
        <5>1. access'["emu"].step = "store"
          BY <3>1, <4>4 DEF Then, Accesses
        <5> QED BY <1>0, <5>1
      <4>5. CASE NextSlot("emu", Full) \/ NextSlot("emu", Access("free", a.req, a.type))
        <5>1. a.step # "mark"
          BY <3>3 DEF Seek
        <5>2. access'["emu"].step \in {a.step, "full", "free"}
          BY <3>1, <4>5 DEF NextSlot, First, Accesses, Full, Access
        <5>3. a.step \in {"find", "free"}
          BY <3>3 DEF Seek
        <5> QED BY <1>0, <5>2, <5>3
      <4> QED BY <4>1, <4>3, <4>4, <4>5
    <3>4. CASE Store("emu")
      <4>1. Then("emu", "mark") /\ d_request' = [d_request EXCEPT ![a.slot] = r]
        BY <3>2, <3>4 DEF Store
      <4>2. access'["emu"].step = "mark" /\ access'["emu"].slot = a.slot
        BY <3>1, <4>1 DEF Then, Accesses
      <4>3. d_request'[a.slot] = r
        BY <1>0, <3>2, <4>1 DEF TableTypes
      <4> QED BY <1>0, <4>2, <4>3
    <3>5. CASE Mark("emu")
      <4>1. a.step = "mark" /\ First("emu", Done) /\ d_request' = d_request
            /\ d_request_type' = [d_request_type EXCEPT ![a.slot] = "TEMP"]
            /\ unmarked' = IF d_request[a.slot] = r THEN unmarked \ {r} ELSE unmarked \cup Overwritten("emu")
        BY <3>2, <3>5 DEF Mark
      <4>2. access'["emu"] = Done
        BY <3>1, <4>1 DEF First
      <4>3. d_request[a.slot] = r
        BY <2>2, <2>5, <4>1
      <4>4. PICK i \in Slots : i = a.slot
        BY <3>2
      <4>5. d_request_type \in [Slots -> Kinds] /\ d_request_type' = [d_request_type EXCEPT ![i] = "TEMP"]
        BY ONLY <1>0, <4>1, <4>4 DEF TableTypes
      <4>6. d_request_type'[i] = "TEMP"
        BY ONLY <4>4, <4>5
      <4>7. d_request'[i] = r
        BY ONLY <4>1, <4>3, <4>4
      <4>8. Processing(r)'
        BY ONLY <4>4, <4>6, <4>7 DEF Processing, Slots
      <4>9. access'["emu"].step # "mark"
        BY ONLY <1>0, <4>2
      <4> QED BY ONLY <4>8, <4>9
    <3>6. ~ Wait("emu")
      BY <3>2 DEF Wait
    <3> QED BY <2>8, <3>3, <3>4, <3>5, <3>6 DEF Routine
  <2>9. CASE Routine("dev")
    <3> DEFINE b == access["dev"]
    <3>1. access'["emu"] = access["emu"]
      BY <1>0, <2>9, RoutineTouches
    <3>2. b.type # "TEMP" /\ b.req # r
      <4>1. b.type # "TEMP" /\ b.req = dev.req.req /\ dev.req = Tok(dev.req.req) /\ AtTheThread(dev.req)
        BY <1>0, <2>7, <2>9, DevsRequest
      <4>2. \A p \in Places : ~ In(p, Tok(emu.req))
        BY <2>2 DEF Fresh
      <4>3. ~ AtTheThread(Tok(r))
        <5>1. ~ In("thread", Tok(emu.req))
          BY <4>2 DEF Places
        <5>2. ~ AtTheThread(Tok(emu.req))
          BY <5>1 DEF In
        <5> QED BY <2>1, <5>2
      <4> QED BY <4>1, <4>3
    <3>3. r \notin unmarked
      BY <2>2, <2>9, <3>2, MarksLost
    <3>4. access["emu"] \in Accesses /\ b \in Accesses
      BY <1>0 DEF TableTypes
    <3>5. access["emu"].step = "mark" => d_request'[access["emu"].slot] = r
      <4> SUFFICES ASSUME access["emu"].step = "mark" PROVE d_request'[access["emu"].slot] = r
        OBVIOUS
      <4>1. d_request[access["emu"].slot] = r
        BY <2>5, <3>3
      <4>2. CASE Store("dev")
        <5>1. /\ d_request' = [d_request EXCEPT ![b.slot] = IF b.type = "NONE" THEN None ELSE b.req]
              /\ unmarked' = unmarked \cup Overwritten("dev")
          BY <4>2 DEF Store
        <5>2. b.slot # access["emu"].slot
          BY <2>2, <3>2, <4>1, <5>1 DEF Overwritten
        <5> QED BY <1>0, <3>4, <4>1, <5>1, <5>2 DEF TableTypes, Accesses
      <4>3. CASE Wait("dev") \/ Seek("dev") \/ Mark("dev")
        <5>1. d_request' = d_request
          BY <4>3 DEF Wait, Seek, Mark
        <5> QED BY <4>1, <5>1
      <4> QED BY <2>9, <4>2, <4>3 DEF Routine
    <3>6. access["emu"] = Done => Processing(r)'
      <4> SUFFICES ASSUME access["emu"] = Done PROVE Processing(r)'
        OBVIOUS
      <4>1. PICK i \in Slots : TempAt(i, r)
        BY <2>5, <3>3
      <4>2. TempAt(i, r)'
        BY <1>0, <2>2, <2>9, <3>2, <4>1, MarkKept
      <4> QED BY <2>6, <4>2
    <3> QED BY <3>1, <3>5, <3>6
  <2>10. CASE ~ (Routine("emu") \/ Routine("dev"))
    <3>1. d_request' = d_request /\ d_request_type' = d_request_type /\ unmarked' = unmarked
      BY <2>7, <2>10, TableSteps
    <3>2. access'["emu"] = access["emu"] \/ \E q \in Requests, c \in Commands : hardfile_beginio(q, c)
      <4>1. ~ ResetAborts /\ ~ \E q \in Requests : hardfile_abortio(q)
        BY <2>2 DEF ResetAborts, hardfile_abortio, Amiga
      <4> QED BY <1>0, <2>7, <2>10, <4>1, AccessAlone
    <3>3. access'["emu"] = access["emu"] =>
            /\ access'["emu"].step = "mark" => d_request'[access'["emu"].slot] = r
            /\ access'["emu"] = Done => Processing(r)'
      <4>1. \A i \in Slots : TempAt(i, r) => TempAt(i, r)'
        BY <3>1 DEF TempAt
      <4> QED BY <2>2, <2>5, <2>6, <3>1, <4>1
    <3> QED BY <1>2, <2>1, <1>3, <2>3, <3>2, <3>3
  <2> QED BY <2>8, <2>9, <2>10
<1> QED BY <1>1, <1>2, <1>3

\* AbortIO goes on waiting: the mark is ahead of it.
LEMMA WaitedStays ==
  ASSUME Types, Parts, Boots, OnePlace, Users, Marked, Waited, Steps
  PROVE  Waited'
<1> SUFFICES ASSUME emu'.at = "abort", emu'.req \notin unmarked', Awaited(Tok(emu.req))'
             PROVE  access'["emu"].step = "wait" /\ \E i \in Slots : i >= access'["emu"].slot /\ TempAt(i, emu.req)'
  BY DEF Waited, Slots
<1>0. /\ TableTypes /\ DevUses /\ EmuUses /\ emu \in EmuStates /\ boot \in Nat
      /\ MAX_ASYNC_REQUESTS \in Nat /\ 1 \in Slots /\ Slots \subseteq Nat
  BY HardfileAssumption DEF Types, Lives, ThreadTypes, AmigaTypes, Users, Slots
<1>1. emu' \in EmuStates
  BY StepsKeepTypes DEF Types, Lives, ThreadTypes
<1>2. PICK r \in Requests : r = emu'.req
  BY <1>1 DEF EmuStates
<1>3. ~ BeginDone /\ ~ Reset /\ ~ ResetAborts /\ ~ ResetClears
  BY DEF BeginDone, Reset, ResetAborts, ResetClears, Emu, At, Round
<1>4. boot' = boot
  BY <1>3, BootSteps
<1>5. PICK x \in IoReq : x = Tok(r)
  BY <1>0 DEF Tok, IoReq
<1>6. Tok(emu.req)' = x /\ Tok(r)' = x
  BY <1>2, <1>4, <1>5 DEF Tok
<1>7. Awaited(x)' /\ Awaited(Tok(r))'
  BY <1>6 DEF Awaited, InThePipe, AtTheThread, WorkedOff
<1>8. Awaited(x) /\ Awaited(Tok(r))
  <2>1. Awaited(x)
    BY <1>0, <1>3, <1>7, AwaitedSince
  <2> QED BY <1>5, <2>1
<1>9. SUFFICES access'["emu"].step = "wait" /\ \E i \in Slots : i >= access'["emu"].slot /\ TempAt(i, r)'
  <2>1. \A i : TempAt(i, emu.req)' <=> TempAt(i, r)'
    BY <1>2 DEF TempAt
  <2> QED BY <2>1
<1>10. emu' = emu \/ \E q \in Requests : hardfile_abortio(q)
  <2>1. ~ AbortDone /\ ~ ResetTellsThread /\ ~ \E q \in Requests, c \in Commands : hardfile_beginio(q, c)
    BY DEF AbortDone, ResetTellsThread, hardfile_beginio, Emu, At
  <2> QED BY <1>3, <2>1, EmuMoves
<1>11. CASE \E q \in Requests : hardfile_abortio(q)
  <2>1. /\ access' = [access EXCEPT !["emu"] = Access("wait", r, "NONE")]
        /\ d_request' = d_request /\ d_request_type' = d_request_type /\ unmarked' = unmarked
    BY <1>2, <1>11 DEF hardfile_abortio, Aborts, First, At, amigaVars
  <2>2. access'["emu"].step = "wait" /\ access'["emu"].slot = 1
    BY <1>0, <2>1 DEF TableTypes, Access
  <2>3. PICK i \in Slots : TempAt(i, r)
    BY <1>2, <1>8, <2>1 DEF Marked, Processing, TempAt
  <2>4. TempAt(i, r)' /\ i >= 1
    BY <1>0, <2>1, <2>3 DEF TempAt, Slots
  <2> QED BY <2>2, <2>4
<1>12. CASE emu' = emu
  <2>1. emu.at = "abort" /\ emu.req = r /\ r \notin unmarked' /\ ~ Resetting
    BY <1>2, <1>12 DEF Resetting
  <2>2. Routine("emu") => access["emu"].type # "TEMP"
    <3>1. Routine("emu") => access["emu"] # Done
      BY <1>0, RoutineGoesOn DEF Returned, Done, Access, Kinds
    <3> QED BY <2>1, <3>1 DEF EmuUses, Uses, Waits, Users
  <2>3. r \notin unmarked
    <3>1. Routine("dev") => access["dev"].type # "TEMP"
      BY <1>0, <2>1, DevsRequest
    <3> QED BY <1>3, <2>1, <2>2, <3>1, MarksLost, TableSteps
  <2>4. access["emu"].step = "wait" /\ \E i \in Slots : i >= access["emu"].slot /\ TempAt(i, r)
    <3>1. Awaited(Tok(emu.req))
      BY <1>8, <2>1
    <3> QED BY <2>1, <2>3, <3>1 DEF Waited
  <2>5. PICK i \in Slots : i >= access["emu"].slot /\ TempAt(i, r)
    BY <2>4
  <2>6. CASE Routine("emu")
    <3> DEFINE a == access["emu"]
    <3>1. Wait("emu")
      BY <2>4, <2>6 DEF Routine, Wait, Seek, Store, Mark
    <3>2. a \in Accesses /\ access \in [{"emu", "dev"} -> Accesses] /\ a.slot \in Slots
      BY <1>0 DEF TableTypes, Accesses
    <3>3. a.req = r
      <4>1. access["emu"] # Done
        BY <2>4 DEF Done, Access
      <4> QED BY <2>1, <4>1 DEF EmuUses, Uses, Waits, Users
    <3>4. TempAt(i, r)'
      BY <2>5, <3>1 DEF Wait, TempAt
    <3>5. CASE TempAt(a.slot, r)
      <4>1. access' = [access EXCEPT !["emu"] = Access("wait", r, "NONE")]
        BY <3>1, <3>3, <3>5 DEF Wait, TempAt, Aborts, First
      <4>2. access'["emu"].step = "wait" /\ access'["emu"].slot = 1
        BY <3>2, <4>1 DEF Access
      <4>3. i >= 1
        BY <1>0 DEF Slots
      <4> QED BY <3>4, <4>2, <4>3
    <3>6. CASE ~ TempAt(a.slot, r)
      <4>1. NextSlot("emu", Access("find", r, "NONE"))
        BY <3>1, <3>3, <3>6 DEF Wait, TempAt
      <4>2. a.slot # i /\ a.slot \in Nat /\ i \in Nat /\ i <= MAX_ASYNC_REQUESTS
        BY <1>0, <2>5, <3>2, <3>6 DEF Slots
      <4>3. a.slot < MAX_ASYNC_REQUESTS /\ i >= a.slot + 1
        BY <1>0, <2>5, <4>2
      <4>4. access' = [access EXCEPT !["emu"].slot = a.slot + 1]
        BY <4>1, <4>3 DEF NextSlot
      <4>5. access'["emu"] = [a EXCEPT !.slot = a.slot + 1]
        BY <3>2, <4>4
      <4>6. access'["emu"].step = "wait" /\ access'["emu"].slot = a.slot + 1
        BY <2>4, <3>2, <4>5 DEF Accesses
      <4> QED BY <3>4, <4>3, <4>6
    <3> QED BY <3>5, <3>6
  <2>7. CASE Routine("dev")
    <3>1. access'["emu"] = access["emu"]
      BY <1>0, <2>7, RoutineTouches
    <3>2. TempAt(i, r)'
      BY <1>0, <1>7, <2>1, <2>5, <2>7, DevKeepsMarks
    <3> QED BY <2>4, <2>5, <3>1, <3>2
  <2>8. CASE ~ (Routine("emu") \/ Routine("dev") \/ \E q \in Requests : hardfile_abortio(q))
    <3>1. ~ hardfile_open /\ ~ \E q \in Requests, c \in Commands : hardfile_beginio(q, c)
      BY <2>1 DEF hardfile_open, hardfile_beginio, Amiga
    <3>2. d_request' = d_request /\ d_request_type' = d_request_type /\ access'["emu"] = access["emu"]
      BY <1>0, <1>3, <2>8, <3>1, TableSteps, AccessAlone
    <3>3. TempAt(i, r)'
      BY <2>5, <3>2 DEF TempAt
    <3> QED BY <2>4, <2>5, <3>2, <3>3
  <2> QED BY <1>11, <2>6, <2>7, <2>8
<1> QED BY <1>10, <1>11, <1>12

-----------------------------------------------------------------------------
(* The invariant, and what follows from it.                                *)

\* At first no request is anywhere.
LEMMA IInvInit == Init => IInv
<1> SUFFICES ASSUME Init PROVE IInv
  OBVIOUS
<1>1. Types
  BY TypesInit
<1>2. /\ requests = <<>> /\ native2amiga_pending = <<>> /\ server.got = <<>>
      /\ \A s \in Senders : call[s].left = <<>>
      /\ dev.at = "none" /\ emu.at = "cpu" /\ access["dev"] = Done /\ access["emu"] = Done
  BY DEF Init, N2AInit, NotCalling, At
<1>3. Len(<<>>) = 0 /\ 1 .. 0 = {} /\ 2 .. 0 = {}
  BY EmptySeq
<1>4. \A x : ~ Has(<<>>, x) /\ Single(<<>>, x)
  BY <1>3 DEF Has, Single
<1>5. \A x, p : ~ In(p, x)
  BY <1>2, <1>4, ThreeSenders
  DEF In, InThePipe, AtTheThread, AtWork, ToWrite, OnTheWay, WithTheServer, Decoding
<1>6. \A x : Singles(x)
  BY <1>2, <1>4 DEF Singles
<1>7. Parts
  BY <1>2, <1>3 DEF Parts
<1>8. Boots /\ OnePlace
  BY <1>5, <1>6 DEF Boots, OnePlace
<1>9. Users
  BY <1>2 DEF Users, DevUses, EmuUses
<1>10. Fresh /\ Entered /\ Waited
  BY <1>2 DEF Fresh, Entered, Waited
<1>11. Marked
  BY <1>2, <1>4 DEF Marked, Awaited, InThePipe, AtTheThread, AtWork
<1> QED BY <1>1, <1>7, <1>8, <1>9, <1>10, <1>11 DEF IInv

\* Every step keeps it.
LEMMA IInvStays == IInv /\ [Next]_vars => IInv'
<1> SUFFICES ASSUME IInv, [Next]_vars PROVE IInv'
  OBVIOUS
<1>1. Steps /\ Types /\ Parts /\ Boots /\ OnePlace /\ Users /\ DevUses /\ EmuUses
  BY NextIsSteps DEF IInv, Users
<1>2. Fresh /\ Marked /\ Entered /\ Waited
  BY DEF IInv
<1>3. Types' /\ Parts' /\ Boots'
  BY <1>1, StepsKeepTypes, PartsStay, BootsStay
<1>4. DevUses' /\ EmuUses'
  BY <1>1, DevUsesStays, EmuUsesStays
<1>5. OnePlace' /\ Fresh'
  BY <1>1, <1>2, <1>3, OnePlaceStays, FreshStays
<1>6. Marked' /\ Entered' /\ Waited'
  BY <1>1, <1>2, <1>3, MarkedStays, EnteredStays, WaitedStays
<1> QED BY <1>3, <1>4, <1>5, <1>6 DEF IInv, Users

\* The semaphores are binary; the private data is cleared when no thread uses it.
LEMMA UnitIsSound ==
  ASSUME Types
  PROVE  TypeOK /\ ClearedWhenUnused
<1>0. /\ CallInv /\ TableTypes /\ ThreadTypes /\ AmigaTypes /\ Life /\ Guarded /\ Opens
  BY ONLY Types DEF Types, Lives
<1>1. emu.at \in EmuPC
  <2>1. emu \in EmuStates
    BY ONLY <1>0 DEF ThreadTypes
  <2> QED BY ONLY <2>1 DEF EmuStates, EmuPC
<1>2. sync_sem \in {0, 1} /\ (sync_sem = 1 => emu.at \in {"open", "close", "reset_close"})
  BY ONLY <1>0, <1>1 DEF Life, EmuPC, Starting, Alive, Dying, Gone
<1>3. leaving \in {0, 1}
  <2>1. leaving \in Nat /\ change_sem \in {0, 1} /\ leaving + (IF dev.at \in Doing THEN 1 ELSE 0) = 1 - change_sem
    BY ONLY <1>0 DEF Guarded, ThreadTypes
  <2> QED BY ONLY <2>1
<1>4. opencount \in 0 .. MaxOther
  <2>1. opencount \in Nat /\ others \in 0 .. MaxOther /\ opencount + (IF emu.at = "open" THEN 1 ELSE 0) <= others
    BY ONLY <1>0 DEF Opens, AmigaTypes, ThreadTypes
  <2> QED BY ONLY <2>1, HardfileAssumption
<1>5. Len(native2amiga_pending) <= N2ASize
  BY ONLY <1>0 DEF CallInv, CallTypes
<1>6. TypeOK
  <2>1. /\ thread_running \in {0, 1} /\ change_sem \in {0, 1}
        /\ d_request \in [Slots -> Requests \cup {None}]
        /\ d_request_type \in [Slots -> {"NONE", "TEMP", "CHANGEINT"}]
    BY ONLY <1>0 DEF ThreadTypes, TableTypes, Kinds
  <2> QED BY ONLY <1>2, <1>3, <1>4, <1>5, <2>1 DEF TypeOK
<1>7. ClearedWhenUnused
  <2>1. thread_running = 0 /\ emu.at # "open" => dev.at = "none"
    BY ONLY <1>0, <1>1 DEF Life, EmuPC, Starting, Alive, Dying, Gone
  <2>2. emu.at = "reset_clear" => dev.at = "none"
    BY ONLY <1>0 DEF Life, Gone
  <2> QED BY ONLY <2>1, <2>2 DEF ClearedWhenUnused
<1> QED BY <1>6, <1>7

\* A request in one place is counted once; one in none, not at all.
LEMMA OneReplyThen ==
  ASSUME IInv
  PROVE  OneReply
<1>0. Types /\ OnePlace
  BY DEF IInv
<1>1. TypeOK /\ ClearedWhenUnused
  BY <1>0, UnitIsSound
<1>2. ASSUME NEW r \in Requests
      PROVE  LET places == Cardinality(InPipe(r)) + (IF InWork(r) THEN 1 ELSE 0) + Replies(r) IN
             IF owner[r] = "Amiga" THEN places = 0 ELSE places <= 1
  <2> DEFINE x == Tok(r)
  <2>1. /\ Singles(x)
        /\ \A p, q \in Places : In(p, x) /\ In(q, x) => p = q
        /\ owner[r] = "Amiga" => \A p \in Places : ~ In(p, x)
    BY <1>0 DEF OnePlace
  <2>2. /\ Cardinality(InPipe(r)) = IF InThePipe(x) THEN 1 ELSE 0
        /\ InWork(r) <=> AtTheThread(x)
        /\ Replies(r) = (IF OnTheWay(x) THEN 1 ELSE 0) + (IF WithTheServer(x) THEN 1 ELSE 0) + (IF ToWrite(x) THEN 1 ELSE 0)
    BY <1>0, <2>1, PlacesAreCounted
  <2> HIDE DEF x
  <2>5. /\ In("pipe", x) <=> InThePipe(x)
        /\ In("thread", x) <=> AtTheThread(x)
        /\ In("write", x) <=> ToWrite(x)
        /\ In("way", x) <=> OnTheWay(x)
        /\ In("server", x) <=> WithTheServer(x)
    BY DEF In
  <2>6. /\ ~ (InThePipe(x) /\ (AtTheThread(x) \/ ToWrite(x) \/ OnTheWay(x) \/ WithTheServer(x)))
        /\ ~ (AtTheThread(x) /\ (ToWrite(x) \/ OnTheWay(x) \/ WithTheServer(x)))
        /\ ~ (ToWrite(x) /\ (OnTheWay(x) \/ WithTheServer(x)))
        /\ ~ (OnTheWay(x) /\ WithTheServer(x))
    BY <2>1, <2>5 DEF Places
  <2>7. owner[r] = "Amiga" =>
          ~ (InThePipe(x) \/ AtTheThread(x) \/ ToWrite(x) \/ OnTheWay(x) \/ WithTheServer(x))
    BY <2>1, <2>5 DEF Places
  <2> QED BY <2>2, <2>6, <2>7
<1> QED BY <1>1, <1>2 DEF OneReply

\* AbortIO returns after a look at every slot: then the request was worked off,
\* or its mark was lost.
LEMMA AbortReturns ==
  ASSUME IInv, [Next]_vars, NEW r \in Requests, emu = At("abort", r), emu'.at = "cpu"
  PROVE  r \in unmarked \/ (InPipe(r) = {} /\ (InWork(r) => WorkedOff))
<1>0. Steps /\ Types /\ EmuUses /\ OnePlace /\ Waited
  BY NextIsSteps DEF IInv, Users
<1>1. emu.at = "abort" /\ emu.req = r
  BY DEF At
<1>2. AbortDone
  <2>1. ~ (BeginDone \/ Reset \/ ResetAborts \/ ResetTellsThread)
    BY <1>1 DEF BeginDone, Reset, ResetAborts, ResetTellsThread, Emu
  <2>2. /\ ~ \E q \in Requests : hardfile_abortio(q)
        /\ ~ \E q \in Requests, c \in Commands : hardfile_beginio(q, c)
    BY <1>1 DEF hardfile_abortio, hardfile_beginio, Amiga
  <2> QED BY <1>0, <1>1, <2>1, <2>2, EmuMoves
<1>3. access["emu"].step # "wait"
  BY <1>2 DEF AbortDone, Returned
<1>4. r \notin unmarked => ~ Awaited(Tok(r))
  <2>1. r \notin unmarked => ~ Awaited(Tok(emu.req))
    BY <1>0, <1>1, <1>3 DEF Waited
  <2> QED BY <1>1, <2>1
<1>5. PICK x : x = Tok(r)
  OBVIOUS
<1>6. ~ Awaited(x) => InPipe(r) = {} /\ (InWork(r) => WorkedOff)
  <2>1. Singles(Tok(r))
    BY <1>0 DEF OnePlace
  <2>2. (InPipe(r) = {} <=> ~ InThePipe(x)) /\ (InWork(r) <=> AtTheThread(x))
    BY <1>0, <1>5, <2>1, PlacesAreCounted
  <2> QED BY <2>2 DEF Awaited
<1>7. r \notin unmarked => ~ Awaited(x)
  BY <1>4, <1>5
<1> QED BY <1>6, <1>7

\* A request that the Amiga has sent is in one place, on its way to one reply;
\* one it owns again is nowhere.
THEOREM RequestsHaveOneReply == Spec => []OneReply
<1> QED BY IInvInit, IInvStays, OneReplyThen, PTL DEF Spec

\* AbortIO waits for the request it aborts, unless its mark in the table was
\* lost: there was no room for it, or the other thread stored over it.
THEOREM AbortsAreWaitedFor == Spec => AbortWaits
<1>1. IInv /\ [Next]_vars =>
        [\A r \in Requests :
           emu = At("abort", r) /\ emu'.at = "cpu" =>
             \/ r \in unmarked
             \/ InPipe(r) = {} /\ (InWork(r) => WorkedOff)]_vars
  BY AbortReturns
<1> QED BY <1>1, IInvInit, IInvStays, PTL DEF Spec, AbortWaits
=============================================================================
