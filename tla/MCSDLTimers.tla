---------------------------- MODULE MCSDLTimers -----------------------------
(* Instances of SDLTimers for TLC. *)
EXTENDS SDLTimers

CONSTANTS t1, t2

(* The hypothesis of the theorems about ages holds of the instance.        *)
ASSUME InstanceFits == IntervalsFit

=============================================================================
