---------------------------- MODULE AdminSecrets ----------------------------
(***************************************************************************)
(* What the two ways to deploy the contract have in common, the CLI        *)
(* (cli.ts --deploy) and the administrator console (midnight-admin): the   *)
(* pairs of role secrets that were generated, and the contracts that were  *)
(* deployed with them.  A contract is known by the number of its pair.     *)
(***************************************************************************)
EXTENDS Naturals, FiniteSets

CONSTANT MaxSecrets     \* bound: pairs of role secrets generated

ASSUME SecretsAssumption == MaxSecrets \in Nat

VARIABLES
  secretsMade,  \* how many pairs were generated
  contracts     \* the pairs a contract on the ledger was deployed with

SecretsTypeOK ==
  /\ secretsMade \in 0 .. MaxSecrets
  /\ contracts \subseteq 1 .. secretsMade

SecretsInit ==
  /\ secretsMade = 0
  /\ contracts = {}

(* Two times 32 random bytes. *)
NewSecrets ==
  /\ secretsMade < MaxSecrets
  /\ secretsMade' = secretsMade + 1

(* GhostWhistleContractClient.deploy with pair s: the ledger takes the
   contract. *)
Deploys(s) == contracts' = contracts \cup {s}

=============================================================================
