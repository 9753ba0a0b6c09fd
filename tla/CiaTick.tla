------------------------------- MODULE CiaTick -------------------------------
(***************************************************************************)
(* The timers of an 8520 as the hardware has them: one E clock at a time.  *)
(* c is a chip's registers, a record as in Cia.                            *)
(***************************************************************************)
EXTENDS Integers

\* Does a timer of the chip c count E clocks?
Counts(c) ==
  \/ c.cra.start = 1 /\ c.cra.cnt = 0
  \/ c.crb.start = 1 /\ c.crb.inmode = "phi2"

\* One E clock of a chip c.
Tick(c) ==
  LET aUnder == c.cra.start = 1 /\ c.cra.cnt = 0 /\ c.ta = 0
      bPulse == \/ c.crb.inmode = "phi2"
                \/ c.crb.inmode = "ta" /\ aUnder
      bUnder == c.crb.start = 1 /\ bPulse /\ c.tb = 0
      shifts == aUnder /\ c.cra.sp = 1 /\ c.cra.oneshot = 0 /\ c.sdr_cnt > 0
  IN [c EXCEPT
        !.ta = IF aUnder THEN c.la ELSE IF c.cra.start = 1 /\ c.cra.cnt = 0 THEN @ - 1 ELSE @,
        !.tb = IF bUnder THEN c.lb ELSE IF c.crb.start = 1 /\ bPulse THEN @ - 1 ELSE @,
        !.cra.start = IF aUnder /\ c.cra.oneshot = 1 THEN 0 ELSE @,
        !.crb.start = IF bUnder /\ c.crb.oneshot = 1 THEN 0 ELSE @,
        !.sdr_cnt = IF shifts THEN @ - 1 ELSE @,
        !.icr = @ \union (IF aUnder THEN {"ta"} ELSE {})
                  \union (IF bUnder THEN {"tb"} ELSE {})
                  \union (IF shifts /\ c.sdr_cnt = 1 THEN {"sp"} ELSE {})]

\* n E clocks: after[k] holds the one chip that c is after k of them.
Ticks(c, n) ==
  LET after[k \in 0..n] == IF k = 0 THEN {c} ELSE {Tick(d) : d \in after[k - 1]}
  IN CHOOSE d \in after[n] : TRUE
=============================================================================
