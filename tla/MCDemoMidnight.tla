---------------------------- MODULE MCDemoMidnight ----------------------------
(* Small instances of DemoMidnight for TLC. *)
EXTENDS DemoMidnight, TLC

Symmetry == Permutations(Caller) \cup Permutations(Domain) \cup Permutations(Secret)
              \cup Permutations(Body) \cup Permutations(Salt)
===============================================================================
