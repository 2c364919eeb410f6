----------------------------- MODULE MCSysTimer -----------------------------
(* A periodic timer and two that expire once.                              *)
EXTENDS SysTimer

CONSTANTS a, b, p

MCInterval == {1, 3}
=============================================================================
