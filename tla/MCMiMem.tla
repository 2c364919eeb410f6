------------------------------ MODULE MCMiMem -------------------------------
(* A small instance of MiMem.                                              *)
EXTENDS MiMem

MCRequest == {1, 4, 7}
============================================================================
