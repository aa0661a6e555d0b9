---------------------------- MODULE MCApiSearch ----------------------------
(* Values for the constants of ApiSearch that a .cfg cannot write.         *)
EXTENDS ApiSearch, TLC

\* Each URL has a key of its own.
MCKeyOf == [u \in Urls |-> u]

\* Threads are interchangeable, and so are URLs of the same mode.
MCSymmetry == Permutations(Threads) \union Permutations(FastUrls)
=============================================================================
