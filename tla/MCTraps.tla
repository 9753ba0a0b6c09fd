------------------------------ MODULE MCTraps ------------------------------
\* Traps for TLC: two tasks whose traps nest and interleave, a reset, and one
\* context fewer than traps, so that an address is allocated again.
EXTENDS Traps
=============================================================================
