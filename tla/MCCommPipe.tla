----------------------------- MODULE MCCommPipe -----------------------------
(***************************************************************************)
(* A small pipe for TLC: a ring of four slots is full with three chunks,   *)
(* so nine chunks wrap both cursors around it twice.                       *)
(***************************************************************************)
EXTENDS CommPipe
=============================================================================
