----------------------------- MODULE MCFileStore -----------------------------
(* Small instances of FileStore for TLC.                                     *)
EXTENDS FileStore, TLC

\* Callers, sessions, offers and bindings are interchangeable.
Interchangeable ==
    Permutations(Callers) \union Permutations(Sessions)
    \union Permutations(Offers) \union Permutations(Bindings)
==============================================================================
