------------------------------ MODULE MCConPty ------------------------------
(* Two threads on one pseudo console; the master is not Sync, so only one   *)
(* of them can call it.                                                     *)
EXTENDS ConPty

CONSTANTS c1, c2

MCCallers == {c1, c2}
MCMasters == {c1}
\* An ordinary width, and one that a COORD turns negative.
MCSizes == {120, 40000}
=============================================================================
