------------------------------- MODULE MCMac -------------------------------
(* A board that queues three frames in two buffers and hears three.        *)
EXTENDS Mac
=============================================================================
