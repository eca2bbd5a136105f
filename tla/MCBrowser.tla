------------------------------ MODULE MCBrowser ------------------------------
(* Small instances of Browser for TLC.                                       *)
EXTENDS Browser, TLC

\* A browser that refreshes early and hears every reply, and one that refreshes
\* a dead cookie and misses up to two.  Both take a cookie for dead a second and
\* two round trips early.
EagerOrLossy ==
    {[early |-> 4, margin |-> 3, losses |-> 0],
     [early |-> 0, margin |-> 3, losses |-> 2]}

\* A browser that does neither, and sends a cookie until it expires.
Plain == {[early |-> 0, margin |-> 0, losses |-> 0]}

\* One that also refreshes it early.
Eager == {[early |-> 1, margin |-> 0, losses |-> 0]}
==============================================================================
