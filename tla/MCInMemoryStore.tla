--------------------------- MODULE MCInMemoryStore ---------------------------
(* A small instance of InMemoryStore for TLC.                                *)
EXTENDS InMemoryStore, TLC

\* Sessions, offers and bindings are interchangeable.
Interchangeable ==
    Permutations(Sessions) \union Permutations(Offers)
                           \union Permutations(Bindings)
==============================================================================
