----------------------------- MODULE MCOtpIssuance -----------------------------
(* Small instances of OtpIssuance for TLC. *)
EXTENDS OtpIssuance, TLC

Symmetry == Permutations(Email) \cup Permutations(Commitment) \cup Permutations(Id)
              \cup Permutations(Requester) \cup Permutations(Verifier)
================================================================================
