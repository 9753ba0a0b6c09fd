----------------------------- MODULE MCAmigaSem -----------------------------
\* AmigaSem for TLC: a binary semaphore (trap_mutex, a pipe's lock) and three
\* tasks that may each wait, try, post or destroy at any time.
EXTENDS AmigaSem
=============================================================================
