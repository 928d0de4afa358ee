------------------------- MODULE MCGhostWhistleLedger -------------------------
(* A small instance of the contract for TLC: two domains, two mailboxes, two *)
(* credential secrets, one report under two salts.                           *)
EXTENDS GhostWhistleLedger, TLC

Symmetry == Permutations(Domain) \cup Permutations(Email)
              \cup Permutations(Secret) \cup Permutations(Salt)
===============================================================================
