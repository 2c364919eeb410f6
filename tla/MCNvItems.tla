----------------------------- MODULE MCNvItems ------------------------------
(* An item of one cell and one of three.                                   *)
EXTENDS NvItems

CONSTANTS i1, i2

MCLength == [i \in Item |-> IF i = i1 THEN 1 ELSE 3]
=============================================================================
