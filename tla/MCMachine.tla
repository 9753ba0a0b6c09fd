------------------------------ MODULE MCMachine ------------------------------
(* Small instances of Machine for TLC.                                     *)
EXTENDS Machine
=============================================================================
