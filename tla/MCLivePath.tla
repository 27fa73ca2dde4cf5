------------------------------ MODULE MCLivePath ------------------------------
(* A small instance of LivePath for TLC: the bridge in p1, Python in p2.      *)
EXTENDS LivePath

CONSTANTS p1, p2, c1, pending, copy, python

ReadersAtP2 == [c \in Consumers |-> p2]
WritersOfEach == [w \in Writers |-> IF w = python THEN p2 ELSE p1]
OneHandleEach == [p \in Procs |-> 1]
===============================================================================
