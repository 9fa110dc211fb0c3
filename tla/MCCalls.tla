------------------------------ MODULE MCCalls ------------------------------
(* Small instances of CallLifecycle for TLC.                               *)
EXTENDS CallLifecycle

CONSTANTS a1, a2, q1, q2

\* Every call that arrived comes to rest (CallEnds), even when permits have been
\* lost.  The calls differ in nothing: q1 stands for each of them.
EveryCallEnds == CallEnds(q1)
=============================================================================
