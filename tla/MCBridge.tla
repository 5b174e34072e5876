------------------------------- MODULE MCBridge -------------------------------
(***************************************************************************)
(* Model values for Bridge.                                                *)
(***************************************************************************)
EXTENDS Bridge

CONSTANTS c1, c2

===============================================================================
