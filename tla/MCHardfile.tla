----------------------------- MODULE MCHardfile -----------------------------
\* Hardfile for TLC: a pipe too small for the replies, so that it fills up.
EXTENDS Hardfile
CONSTANT r1
\* The requests are alike: the first that is sent may as well be this one.
FirstIsR1 == sent = 0 /\ sent' = 1 => owner'[r1] = "device"
=============================================================================
