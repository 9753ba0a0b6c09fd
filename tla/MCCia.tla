------------------------------- MODULE MCCia -------------------------------
EXTENDS Cia

Cra(s, o, p) == [start |-> s, oneshot |-> o, cnt |-> 0, sp |-> p]
Crb(o, m) == [start |-> 1, oneshot |-> o, inmode |-> m]

\* Two chips of a saved state: timer B counting the underflows of a short timer
\* A that shifts out a byte; both timers running on their own, timer A in
\* one-shot mode.  Chips after a reset come from CIA_reset.
Shifting ==
  [ResetChip EXCEPT !.ta = 1, !.la = 0, !.tb = 1, !.lb = 1, !.cra = Cra(1, 0, 1),
                    !.crb = Crb(0, "ta"), !.sdr_cnt = 1, !.imask = {"tb"}]
Apart ==
  [ResetChip EXCEPT !.ta = 2, !.la = 1, !.tb = 3, !.lb = 0, !.cra = Cra(1, 1, 0),
                    !.crb = Crb(0, "phi2"), !.imask = {"ta", "flag"}]

MCStored == {[A |-> Apart, B |-> Shifting]}
MCCras == {Cra(0, 0, 0), Cra(1, 0, 0), Cra(1, 1, 0), Cra(1, 0, 1)}
MCCrbs == {Crb(0, "phi2"), Crb(1, "phi2"), Crb(0, "ta")}
MCEv == {ev_hsync, ev_cia}
MCStartTimes == {9}
=============================================================================
