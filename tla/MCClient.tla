----------------------------- MODULE MCClient -----------------------------
(***************************************************************************)
(* An instance of Client for TLC.                                          *)
(***************************************************************************)
EXTENDS Client, TLC

CONSTANTS a, b

TheCode == CodeHash("app", "good")

\* The rescuer a may be set back by both calls of b and by every fault.
CallsOf == [c \in Clients |-> IF c \in Rescuers THEN 13 ELSE 2]
============================================================================
