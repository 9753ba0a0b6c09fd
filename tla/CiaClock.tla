------------------------------ MODULE CiaClock ------------------------------
(***************************************************************************)
(* What the 8520s promise a program: both chips count every E clock, one   *)
(* clock at a time, whether or not anybody looks at them.  Cia, which      *)
(* only works out the timers when somebody looks or when one underflows,   *)
(* is checked to implement this.                                           *)
(***************************************************************************)
EXTENDS CiaTick

CONSTANTS
  Chips,
  WRAP,          \* the cycle counter wraps here
  DIV10          \* cycles of one E clock

VARIABLES
  now,           \* the current cycle
  sub,           \* cycles since the last E clock
  chip           \* chip -> registers, as they would be read now

-----------------------------------------------------------------------------
\* Cycles pass, and the chips with them.
Pass ==
  /\ now' # now
  /\ LET n == sub + ((now' - now) % WRAP)
     IN /\ chip' = [x \in Chips |-> Ticks(chip[x], n \div DIV10)]
        /\ sub' = n % DIV10

\* While no timer counts, the phase of the E clock may be lost: the cycles since
\* the last look at the chips are a number that wraps too.
Drift ==
  /\ now' # now /\ sub' \in 0..DIV10 - 1
  /\ chip' = chip /\ \A x \in Chips : ~ Counts(chip[x])

\* A program writes a register of timer A or the serial register, or one of
\* timer B; it clears ICR by reading it, or writes the mask; another source of
\* the chip reports.  The rest of the chip c, now d, goes on undisturbed.
WritesA(c, d) ==
  d = [c EXCEPT !.ta = d.ta, !.la = d.la, !.cra = d.cra, !.sdr_cnt = d.sdr_cnt]
WritesB(c, d) == d = [c EXCEPT !.tb = d.tb, !.lb = d.lb, !.crb = d.crb]
ReadsIcr(c, d) == d = [c EXCEPT !.icr = {}]
WritesMask(c, d) == d = [c EXCEPT !.imask = d.imask]
Reports(c, d) == d = [c EXCEPT !.icr = @ \union {"flag"}]

Access ==
  /\ UNCHANGED <<now, sub>>
  /\ \E new \in {chip'} : \E x \in Chips :
        /\ \A y \in Chips \ {x} : new[y] = chip[y]
        /\ \E c \in {chip[x]} :
              \/ WritesA(c, new[x]) \/ WritesB(c, new[x]) \/ ReadsIcr(c, new[x])
              \/ WritesMask(c, new[x]) \/ Reports(c, new[x])

\* All chips are reset at once, and with them the E clock.
Reset ==
  /\ now' = now /\ sub' = 0
  /\ \A x \in Chips : /\ chip'[x].cra.start = 0 /\ chip'[x].crb.start = 0
                      /\ chip'[x].icr = {} /\ chip'[x].imask = {}

vars == <<now, sub, chip>>

Init == sub \in 0..DIV10 - 1
Next == Pass \/ Drift \/ Access \/ Reset
Spec == Init /\ [][Next]_vars
=============================================================================
