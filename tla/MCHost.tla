------------------------------- MODULE MCHost --------------------------------
(* Small instances of Host for TLC.                                          *)
EXTENDS Host, DbscServerInvariant, TLC

\* Tasks are interchangeable.
Interchangeable == Permutations(Tasks)
==============================================================================
