---------------------------- MODULE MCDbscServer -----------------------------
(* Small instances of DbscServer for TLC.                                    *)
EXTENDS DbscServerInvariant, TLC

\* Tasks, users and keys are interchangeable.
Interchangeable ==
    Permutations(Tasks) \union Permutations(Users) \union Permutations(Keys)
==============================================================================
