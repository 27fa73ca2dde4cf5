------------------------------ MODULE MCRingSteps ------------------------------
(* A small instance of RingSteps for TLC.                                     *)
EXTENDS StepsMulticast

CONSTANTS P1, P2, c1, c2
===============================================================================
