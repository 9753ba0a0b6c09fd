------------------------------- MODULE MCScsi -------------------------------
\* Scsi for TLC: three opens are a first one, one that may meet the dying thread
\* and one after that, with a reset between any two steps.
EXTENDS Scsi
=============================================================================
