----------------------------- MODULE MCDeepCrawl -----------------------------
(* Values for the constants of DeepCrawl that a .cfg cannot write.         *)
EXTENDS DeepCrawl, TLC

CONSTANTS a1, a2, b1, A, B

\* Two pages on one domain, the others on another.
MCDomainOf == [p \in Pages |-> IF p = b1 THEN B ELSE A]

\* The requests do the same.
Perms == Permutations(Requests)
=============================================================================
