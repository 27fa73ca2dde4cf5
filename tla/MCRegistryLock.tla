---------------------------- MODULE MCRegistryLock ----------------------------
(* Small instances of RegistryLock for TLC.                                  *)
EXTENDS RegistryLock

CONSTANTS p1, p2, p3, t1, t2, t3

\* Two threads in p1 and one in p2; a thread in each of three processes.
TwoAndOne == [t \in Threads |-> IF t = t3 THEN p2 ELSE p1]
OneEach == [t \in Threads |-> IF t = t1 THEN p1 ELSE IF t = t2 THEN p2 ELSE p3]

\* The processes were started at different times.
Tokens == [p \in Procs |-> IF p = p1 THEN 1 ELSE IF p = p2 THEN 2 ELSE 3]
===============================================================================
