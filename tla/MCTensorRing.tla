----------------------------- MODULE MCTensorRing -----------------------------
(* Small instances of TensorRing for TLC.                                    *)
EXTENDS RingMulticast

CONSTANTS p1, p2, c1, c2, w1, w2

\* p1 publishes, p2 reads.
ReaderProcess == [c \in Consumers |-> p2]
WriterProcess == [w \in Writers |-> p1]

\* Each process publishes and reads.
ReaderEach == [c \in Consumers |-> IF c = c1 THEN p2 ELSE p1]
WriterEach == [w \in Writers |-> IF w = w1 THEN p1 ELSE p2]
OneHandleEach == [p \in Procs |-> 1]
OneHandleAtP1 == [p \in Procs |-> IF p = p1 THEN 1 ELSE 0]
===============================================================================
