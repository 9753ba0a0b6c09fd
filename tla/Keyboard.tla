------------------------------ MODULE Keyboard ------------------------------
(***************************************************************************)
(* Keys on their way from the host to the Amiga: record_key puts them into *)
(* the ring of src/src/keybuf.c, and every sixteenth line the CIA takes    *)
(* one into its serial register and interrupts (CIA_hsync_handler in       *)
(* src/src/cia.c), unless the last one has not been read.                  *)
(*                                                                         *)
(* The header of keybuf.c allows two threads, one that records and one     *)
(* that takes, "without synchronization", if stores of integers are atomic.*)
(* A step is therefore one access to what the two share: kpb_first,        *)
(* kpb_last and the slots.  Whether two threads do run is chosen at the    *)
(* start; in every front end of this tree one thread does both.  A key     *)
(* is its number in the order typed, and 0 stands for any other value of   *)
(* the register.  Keys that steer a joystick do not enter the ring and are *)
(* left out.                                                               *)
(***************************************************************************)
EXTENDS Naturals, FiniteSets

CONSTANTS
    Size,        \* slots of the ring (256)
    Patience,    \* intervals a key may stay unread (16)
    MaxKeys      \* bound: keys typed

ASSUME KeyboardAssumption ==
    /\ Size \in Nat /\ Size > 1 /\ Patience \in Nat \ {0}
    /\ MaxKeys \in Nat

VARIABLES
    keybuf, kpb_first, kpb_last,   \* the ring and its cursors
    wpc, kpb_next,                 \* record_key: where it is, its local
    rpc,                           \* get_next_key: where it is
    kbstate, ciaasdr_unread, sleepyhead, ciaasdr,
    sp_icr,                        \* bit 3 of ciaaicr: serial interrupt
    sp_out,                        \* bit 6 of ciaacra: port drives the line
    hpc,                           \* the Amiga's keyboard interrupt
    two_threads,                   \* does record_key run in a thread of its own?
    raced,                         \* history: it found room in a full ring
    typed, overrun, fed, got, age  \* history: keys typed, refused, last one
                                   \* taken, those read, and the intervals
                                   \* the last one has been in the register

ringVars == <<keybuf, kpb_first, kpb_last>>
writerVars == <<wpc, kpb_next>>
ciaVars == <<kbstate, ciaasdr_unread, sleepyhead, ciaasdr, sp_icr, sp_out>>
pastVars == <<typed, overrun, fed, got, age>>
threadVars == <<two_threads, raced>>
vars == <<ringVars, writerVars, rpc, ciaVars, hpc, threadVars, pastVars>>

Keys == 1 .. MaxKeys
Slots == 0 .. Size - 1

\* keybuf_init and CIA_reset
Init ==
    /\ keybuf = [s \in Slots |-> 0] /\ kpb_first = 0 /\ kpb_last = 0
    /\ wpc = "idle" /\ kpb_next = 0 /\ rpc = "idle"
    /\ kbstate = 0 /\ ciaasdr_unread = 0 /\ sleepyhead = 0 /\ ciaasdr = 0
    /\ sp_icr = FALSE /\ sp_out = FALSE /\ hpc = "idle"
    /\ two_threads \in BOOLEAN /\ raced = FALSE
    /\ typed = 0 /\ overrun = {} /\ fed = 0 /\ got = {} /\ age = 0

\* The emulator's thread is not inside get_next_key, and with one thread not
\* inside record_key either.
Between == rpc = "idle" /\ (two_threads \/ wpc = "idle")

-----------------------------------------------------------------------------
(* record_key.                                                             *)

\* The slot after p
After(p) == IF p + 1 = Size THEN 0 ELSE p + 1

\* Mutant: a full ring is not noticed.
MutFull(p) == FALSE

Full(next) == next = kpb_last

MayRecord == two_threads \/ rpc = "idle"

\* A key is typed; it is refused when the ring is full.  Between the two stores
\* of get_next_key's wrap kpb_last is no slot, and a full ring may seem to have
\* room.
record_key ==
    /\ wpc = "idle" /\ MayRecord /\ typed < MaxKeys
    /\ typed' = typed + 1
    /\ kpb_next' = After(kpb_first)
    /\ IF Full(After(kpb_first))
       THEN overrun' = overrun \cup {typed'} /\ UNCHANGED wpc
       ELSE wpc' = "store" /\ UNCHANGED overrun
    /\ raced' = (raced \/ (rpc = "wrap" /\ kpb_next' = 0))
    /\ two_threads' = two_threads
    /\ UNCHANGED <<ringVars, rpc, ciaVars, hpc, fed, got, age>>

RecordStore ==
    /\ wpc = "store"
    /\ keybuf' = [keybuf EXCEPT ![kpb_first] = typed]
    /\ wpc' = "publish"
    /\ UNCHANGED <<threadVars, kpb_first, kpb_last, kpb_next, rpc, ciaVars, hpc, pastVars>>

RecordPublish ==
    /\ wpc = "publish"
    /\ kpb_first' = kpb_next
    /\ wpc' = "idle"
    /\ UNCHANGED <<threadVars, keybuf, kpb_last, kpb_next, rpc, ciaVars, hpc, pastVars>>

-----------------------------------------------------------------------------
(* CIA_hsync_handler, once in sixteen lines.                               *)

keys_available == kpb_first # kpb_last

MayFeed == Between /\ keys_available /\ ~sp_out

Age == age' = IF age < Patience THEN age + 1 ELSE age

\* The key was read: one interval goes by without another.
FeedSkips ==
    /\ MayFeed /\ ciaasdr_unread = 2
    /\ ciaasdr_unread' = 0 /\ Age
    /\ UNCHANGED <<threadVars, ringVars, writerVars, rpc, kbstate, sleepyhead, ciaasdr,
                   sp_icr, sp_out, hpc, typed, overrun, fed, got>>

\* After a reset the keyboard first says that it is powering up.
FeedPowerUp ==
    /\ MayFeed /\ ciaasdr_unread = 0 /\ kbstate < 2
    /\ kbstate' = kbstate + 1 /\ ciaasdr' = 0 /\ sp_icr' = TRUE
    /\ sleepyhead' = 0 /\ Age
    /\ UNCHANGED <<threadVars, ringVars, writerVars, rpc, ciaasdr_unread, sp_out, hpc,
                   typed, overrun, fed, got>>

\* Mutant: the count of the last wait runs on.
MutFeedKey ==
    /\ MayFeed /\ ciaasdr_unread = 0 /\ kbstate = 2
    /\ ciaasdr' = keybuf[kpb_last] /\ fed' = keybuf[kpb_last]
    /\ ciaasdr_unread' = 1 /\ sp_icr' = TRUE /\ age' = 0
    /\ rpc' = "advance"
    /\ UNCHANGED <<threadVars, ringVars, writerVars, kbstate, sleepyhead, sp_out, hpc,
                   typed, overrun, got>>

\* get_next_key's load, and what CIA_hsync_handler does with the key
FeedKey ==
    /\ MayFeed /\ ciaasdr_unread = 0 /\ kbstate = 2
    /\ ciaasdr' = keybuf[kpb_last] /\ fed' = keybuf[kpb_last]
    /\ ciaasdr_unread' = 1 /\ sp_icr' = TRUE
    /\ sleepyhead' = 0 /\ age' = 0
    /\ rpc' = "advance"
    /\ UNCHANGED <<threadVars, ringVars, writerVars, kbstate, sp_out, hpc,
                   typed, overrun, got>>

\* if (++kpb_last == 256) kpb_last = 0: at the end of the ring one store or
\* two, as the compiler likes.
FeedAdvance ==
    /\ rpc = "advance"
    /\ \/ kpb_last' = After(kpb_last) /\ rpc' = "idle"
       \/ kpb_last + 1 = Size /\ kpb_last' = Size /\ rpc' = "wrap"
    /\ UNCHANGED <<threadVars, keybuf, kpb_first, writerVars, ciaVars, hpc, pastVars>>

FeedWrap ==
    /\ rpc = "wrap"
    /\ kpb_last' = 0 /\ rpc' = "idle"
    /\ UNCHANGED <<threadVars, keybuf, kpb_first, writerVars, ciaVars, hpc, pastVars>>

\* Mutant: the interlock waits for the key to be read, however long.
MutFeedWaits ==
    /\ MayFeed /\ ciaasdr_unread = 1
    /\ sleepyhead' = (sleepyhead + 1) % Patience /\ Age
    /\ UNCHANGED <<threadVars, ringVars, writerVars, rpc, kbstate, ciaasdr, sp_icr, sp_out,
                   ciaasdr_unread, hpc, typed, overrun, fed, got>>

\* The key is still unread; in the end the CIA gives it up.
FeedWaits ==
    /\ MayFeed /\ ciaasdr_unread = 1
    /\ sleepyhead' = (sleepyhead + 1) % Patience
    /\ ciaasdr_unread' = IF sleepyhead' = 0 THEN 0 ELSE 1
    /\ Age
    /\ UNCHANGED <<threadVars, ringVars, writerVars, rpc, kbstate, ciaasdr, sp_icr, sp_out,
                   hpc, typed, overrun, fed, got>>

hsync == \/ FeedSkips \/ FeedPowerUp \/ FeedKey \/ FeedAdvance \/ FeedWrap
         \/ FeedWaits

\* CIA_reset; the ring keeps its keys.
CIA_reset ==
    /\ Between
    /\ kbstate' = 0 /\ ciaasdr_unread' = 0 /\ ciaasdr' = 0
    /\ sp_icr' = FALSE /\ sp_out' = FALSE /\ hpc' = "idle"
    /\ UNCHANGED <<threadVars, ringVars, writerVars, rpc, sleepyhead, pastVars>>

-----------------------------------------------------------------------------
(* The Amiga's side: it runs between the emulator's lines.                 *)

\* ReadCIAA of register 12
ReadSdr ==
    /\ ciaasdr_unread' = IF ciaasdr_unread = 1 THEN 2 ELSE ciaasdr_unread
    /\ got' = IF ciaasdr = 0 THEN got ELSE got \cup {ciaasdr}

\* The interrupt is taken: reading register 13 clears it.
HandlerBegins ==
    /\ Between /\ hpc = "idle" /\ sp_icr
    /\ sp_icr' = FALSE /\ hpc' = "read"
    /\ UNCHANGED <<threadVars, ringVars, writerVars, rpc, kbstate, ciaasdr_unread,
                   sleepyhead, ciaasdr, sp_out, pastVars>>

HandlerReads ==
    /\ Between /\ hpc = "read" /\ ReadSdr /\ hpc' = "shake"
    /\ UNCHANGED <<threadVars, ringVars, writerVars, rpc, kbstate, sleepyhead, ciaasdr,
                   sp_icr, sp_out, typed, overrun, fed, age>>

\* The handshake: the port drives the line for a while; some programs write
\* the register meanwhile.
HandlerShakes ==
    /\ Between /\ hpc = "shake"
    /\ sp_out' = TRUE /\ ciaasdr' \in {ciaasdr, 0} /\ hpc' = "end"
    /\ UNCHANGED <<threadVars, ringVars, writerVars, rpc, kbstate, ciaasdr_unread,
                   sleepyhead, sp_icr, pastVars>>

HandlerEnds ==
    /\ Between /\ hpc = "end"
    /\ sp_out' = FALSE /\ hpc' = "idle"
    /\ UNCHANGED <<threadVars, ringVars, writerVars, rpc, kbstate, ciaasdr_unread,
                   sleepyhead, ciaasdr, sp_icr, pastVars>>

\* A program that looks at the register without waiting for the interrupt.
Polls ==
    /\ Between /\ hpc = "idle" /\ ReadSdr
    /\ UNCHANGED <<threadVars, ringVars, writerVars, rpc, kbstate, sleepyhead, ciaasdr,
                   sp_icr, sp_out, hpc, typed, overrun, fed, age>>

Amiga == HandlerBegins \/ HandlerReads \/ HandlerShakes \/ HandlerEnds \/ Polls

Next == record_key \/ RecordStore \/ RecordPublish \/ hsync \/ CIA_reset
        \/ Amiga

\* Lines go by, record_key returns, and a handler that drives the line lets
\* go of it; nothing says the Amiga ever takes the interrupt, nor that the
\* machine is reset for ever.
Spec ==
    /\ Init /\ [][Next]_vars
    /\ WF_vars(hsync) /\ WF_vars(RecordStore \/ RecordPublish)
    /\ WF_vars(HandlerReads \/ HandlerShakes \/ HandlerEnds)

-----------------------------------------------------------------------------
(* What must hold.                                                         *)

\* How far slot s is from the next key to be taken.
Place(s) == IF s >= kpb_last THEN s - kpb_last ELSE s - kpb_last + Size

TypeOK ==
    /\ keybuf \in [Slots -> Keys \cup {0}]
    /\ kpb_first \in Slots /\ kpb_last \in 0 .. Size
    /\ wpc \in {"idle", "store", "publish"} /\ kpb_next \in Slots
    /\ rpc \in {"idle", "advance", "wrap"}
    /\ kbstate \in 0 .. 2 /\ ciaasdr_unread \in 0 .. 2
    /\ sleepyhead \in 0 .. Patience - 1 /\ ciaasdr \in Keys \cup {0}
    /\ sp_icr \in BOOLEAN /\ sp_out \in BOOLEAN
    /\ hpc \in {"idle", "read", "shake", "end"}
    /\ typed \in 0 .. MaxKeys /\ overrun \subseteq Keys
    /\ fed \in Keys \cup {0} /\ got \subseteq Keys /\ age \in 0 .. Patience

\* The keys that were typed, not refused, and not yet taken
Waiting ==
    {k \in fed + 1 .. (IF wpc = "idle" THEN typed ELSE typed - 1) :
        k \notin overrun}

\* The ring holds exactly the keys that wait, the oldest where the CIA
\* takes the next one: none is lost, repeated or out of turn on the way.  "This
\* code should be perfectly thread safe" (keybuf.c:11), and so it is, but for
\* the two stores of the wrap (keybuf.c:56).
QueueExact ==
    rpc = "idle" /\ ~raced =>
        /\ Place(kpb_first) = Cardinality(Waiting)
        /\ \A k \in Waiting : \E s \in Slots :
              /\ keybuf[s] = k
              /\ Place(s) = Cardinality({i \in Waiting : i < k})

KeysKept == TypeOK /\ QueueExact

\* A key the Amiga has not read makes way for another only after it stayed
\* unread for the whole of the CIA's patience.
NoKeyRunOver ==
    [][(ciaasdr' > ciaasdr /\ ciaasdr # 0 /\ ciaasdr \notin got)
       => age >= Patience]_vars

\* Typing does not get stuck: the ring empties, even when nobody reads,
\* unless the machine is reset again and again.
KeysMoveOn ==
    []<><<CIA_reset>>_vars \/ (kpb_first # kpb_last ~> kpb_first = kpb_last)
=============================================================================
