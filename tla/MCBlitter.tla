----------------------------- MODULE MCBlitter -----------------------------
EXTENDS Blitter

MCEv == {ev_hsync, ev_blitter}
MCStartTimes == {7}
=============================================================================
