--------------------------- MODULE MCReferenceRing ----------------------------
(* A small instance of ReferenceRing for TLC.                                *)
EXTENDS ReferenceMulticast
===============================================================================
