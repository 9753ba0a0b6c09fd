-------------------------- MODULE MCCpuInterrupts --------------------------
\* CpuInterrupts for TLC: PORTS (bit 3, level 2) and DSKSYN (bit 12, level 5) give
\* requests below, at and above each mask a program sets.
EXTENDS CpuInterrupts
=============================================================================
