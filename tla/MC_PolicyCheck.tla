--------------------------- MODULE MC_PolicyCheck ---------------------------
(* Three files: the primary config a with two texts that parse and one that *)
(* does not, a second config b, and n, which is not a config.               *)
EXTENDS PolicyCheck

CONSTANTS a, b, n, a1, a2, bad, b1, n1

SomeTextOf == [t \in Texts |-> CASE t = b1 -> b [] t = n1 -> n [] OTHER -> a]

\* CircleCI decides differently on every text.
SomeRuling == [t \in Texts |-> <<t>>]
=============================================================================
