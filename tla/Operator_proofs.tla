--------------------------- MODULE Operator_proofs ---------------------------
(***************************************************************************)
(* The operator's side, for every number of requests, texts, starts,       *)
(* seeds and pairs of secrets: what the vaults and the backups keep, and   *)
(* what the issuer answers.                                                *)
(***************************************************************************)
EXTENDS Operator, SlidingWindow_proofs, SequenceTheorems

-----------------------------------------------------------------------------
(* The inductive invariant: the vaults. *)

Locked == {"off", "doctor", "openSeed", "newSeed", "walletPassword"}
Opening == Locked \cup {"saveSeed"}
Registering == {"register", "retryLater", "submit"}

(* The seed of the wallet is one that was generated, and what is registered
   with it has been sent to it. *)
SeedRanges ==
  /\ walletVault.file = "whole" => walletVault.holds \in 1 .. seedsMade
  /\ cli.stage = "walletPassword" => walletVault.file = "whole"
  /\ cli.stage \notin Locked => cli.seed \in 1 .. seedsMade
  /\ cli.stage \in Registering => cli.seed \in funded

(* The pair the program uses was generated, the contract it serves exists. *)
SecretRanges ==
  /\ adminVault.file = "whole" => adminVault.holds \in 1 .. secretsMade
  /\ cli.stage = "adminPassword" => adminVault.file = "whole"
  /\ cli.stage \in {"saveAdmin", "providers", "call"} => cli.secret \in 1 .. secretsMade
  /\ cli.stage \in {"serving", "closing"} => cli.contract \in contracts

(* A seed is generated only while there is nothing to lose, and from then on
   the wallet is the one in the vault. *)
SeedKept ==
  ~misread =>
    /\ cli.stage = "newSeed" => walletVault.file = "absent"
    /\ cli.stage = "saveSeed" => printed = {}
    /\ cli.stage \notin Opening => walletVault = [file |-> "whole", holds |-> cli.seed]
    /\ \A s \in printed : walletVault = [file |-> "whole", holds |-> s]

(* The same of the role secrets, unless a backup has them. *)
SecretKept ==
  ~misread /\ ~overlapped =>
    /\ cli.stage = "newAdmin" => adminVault.file = "absent"
    /\ cli.stage = "saveAdmin" => contracts \subseteq downloads
    /\ cli.stage \in {"providers", "call"} =>
         adminVault = [file |-> "whole", holds |-> cli.secret]
    /\ \A c \in contracts : c \in downloads \/ adminVault = [file |-> "whole", holds |-> c]

(* A request is served by a process that serves. *)
HandlersServed ==
  \A h \in Handlers : ~At(h, "idle") => cli.stage \in {"serving", "closing"}

CliInv ==
  /\ SecretsTypeOK
  /\ CliTypeOK
  /\ SeedRanges
  /\ SecretRanges

(* The console deploys the pair that is in memory, and lets go of no pair
   whose backup was not downloaded. *)
ConsoleInv ==
  /\ ConsoleTypeOK
  /\ console.secret <= secretsMade
  /\ console.encrypting \cup console.deploying \subseteq 1 .. secretsMade
  /\ console.deployed \/ console.deployOn => console.secret # 0
  /\ ~console.connected => ~console.prepareOn /\ ~console.confirmOn /\ console.encrypting = {}
  /\ console.deployOn \/ console.deployed => console.confirmOn
  /\ console.deploying # {} => console.confirmOn /\ console.secret # 0

BackedUp ==
  ~overlapped =>
    /\ console.encrypting \subseteq {console.secret}
    /\ console.encrypting # {} => ~console.confirmOn
    /\ console.confirmOn =>
         console.secret \in downloads /\ (console.prepareOn => console.deployed)
    /\ console.deploying \subseteq downloads

-----------------------------------------------------------------------------
(* How the program's process changes. *)

(* A step that only moves the process to another stage leaves the rest of it
   as it was. *)
LEMMA CliGoes ==
  ASSUME cli \in Processes, NEW stage \in Stages, Goto(stage)
  PROVE  /\ cli' \in Processes
         /\ cli'.stage = stage
         /\ cli'.mode = cli.mode /\ cli'.withFile = cli.withFile
         /\ cli'.passwords = cli.passwords /\ cli'.late = cli.late
         /\ cli'.seed = cli.seed /\ cli'.secret = cli.secret /\ cli'.contract = cli.contract
BY DEF Processes, Goto

(* A process that is off is well-typed. *)
LEMMA CliOff == Off \in Processes /\ Off.stage = "off"
BY CliAssumption, SecretsAssumption DEF Off, Processes, Stages, Modes

(* The types and ranges of what the program keeps. *)
LEMMA CliTypes ==
  ASSUME CliInv, HandlersServed,
         CliStep \/ RegistrationDeadline \/ CliOperator \/ ServerClosed \/ ProcessCrash
           \/ (\E h \in Handlers : Approve(h)) \/ UNCHANGED cliVars
  PROVE  CliInv'
<1> USE DEF files, chain, made, In
<1>1. ASSUME Doctor PROVE CliInv'
  BY <1>1, CliAssumption, SecretsAssumption DEF Doctor, CliInv, SecretsTypeOK, CliTypeOK,
       SeedRanges, SecretRanges, Locked, Registering, Goto, Processes, Stages, Asking,
       Waiting, Modes, Vaults, NoVault, Off
<1>2. ASSUME OpenWalletVault PROVE CliInv'
  BY <1>2, CliAssumption, SecretsAssumption DEF OpenWalletVault, CliInv, SecretsTypeOK,
       CliTypeOK, SeedRanges, SecretRanges, Locked, Registering, Goto, Processes, Stages,
       Asking, Waiting, Modes, Vaults, NoVault, Off
<1>3. ASSUME SaveSeed PROVE CliInv'
  <2>1. CASE walletVault' = [file |-> "whole", holds |-> cli.seed] /\ Goto("buildWallet")
    <3>1. cli.seed \in 1 .. seedsMade /\ cli.seed \in 0 .. MaxSeeds
      BY <1>3 DEF SaveSeed, CliInv, CliTypeOK, SeedRanges, Locked, Processes
    <3>2. walletVault' \in Vaults(MaxSeeds)
      BY <2>1, <3>1 DEF Vaults
    <3>3. /\ cli' \in Processes /\ cli'.stage = "buildWallet"
          /\ cli'.seed = cli.seed /\ cli'.secret = cli.secret
      BY <2>1, CliGoes DEF Stages, CliInv, CliTypeOK
    <3> QED
      BY <1>3, <2>1, <3>1, <3>2, <3>3 DEF SaveSeed, CliInv, SecretsTypeOK, CliTypeOK,
           SeedRanges, SecretRanges, Locked, Registering
  <2>2. CASE cli' = Off /\ UNCHANGED walletVault
    BY <1>3, <2>2, CliOff DEF SaveSeed, CliInv, SecretsTypeOK, CliTypeOK, SeedRanges,
         SecretRanges, Locked, Registering
  <2> QED
    BY <1>3, <2>1, <2>2 DEF SaveSeed
<1>4. ASSUME BuildWallet PROVE CliInv'
  <2>1. CASE cli' = Off /\ UNCHANGED printed
    BY <1>4, <2>1, CliOff DEF BuildWallet, CliInv, SecretsTypeOK, CliTypeOK, SeedRanges,
         SecretRanges, Locked, Registering
  <2>2. CASE Goto("unshieldedSync") /\ printed' = printed \cup {cli.seed}
    <3>1. cli.seed \in 1 .. seedsMade
      BY <1>4 DEF BuildWallet, CliInv, SeedRanges, Locked
    <3>2. "unshieldedSync" \in Stages
      BY DEF Stages, Waiting
    <3>3. /\ cli' \in Processes /\ cli'.stage = "unshieldedSync"
          /\ cli'.seed = cli.seed /\ cli'.secret = cli.secret
      BY <2>2, <3>2, CliGoes DEF CliInv, CliTypeOK
    <3> QED
      BY <1>4, <2>2, <3>1, <3>3 DEF BuildWallet, CliInv, SecretsTypeOK, CliTypeOK,
           SeedRanges, SecretRanges, Locked, Registering
  <2> QED
    BY <1>4, <2>1, <2>2 DEF BuildWallet
<1>5. ASSUME UnshieldedSynced PROVE CliInv'
  BY <1>5, CliAssumption, SecretsAssumption DEF UnshieldedSynced, CliInv, SecretsTypeOK,
       CliTypeOK, SeedRanges, SecretRanges, Locked, Registering, Goto, Processes, Stages,
       Asking, Waiting, Modes, Vaults, NoVault, Off
<1>6. ASSUME DustSynced PROVE CliInv'
  BY <1>6, CliAssumption, SecretsAssumption DEF DustSynced, CliInv, SecretsTypeOK, CliTypeOK,
       SeedRanges, SecretRanges, Locked, Registering, Goto, Processes, Stages, Asking,
       Waiting, Modes, Vaults, NoVault, Off
<1>7. ASSUME Balances PROVE CliInv'
  BY <1>7, CliAssumption, SecretsAssumption DEF Balances, Night, Unregistered, CliInv,
       SecretsTypeOK, CliTypeOK, SeedRanges, SecretRanges, Locked, Registering, Goto,
       Processes, Stages, Asking, Waiting, Modes, Vaults, NoVault, Off
<1>8. ASSUME NightReceived PROVE CliInv'
  BY <1>8, CliAssumption, SecretsAssumption DEF NightReceived, Night, Unregistered, CliInv,
       SecretsTypeOK, CliTypeOK, SeedRanges, SecretRanges, Locked, Registering, Goto,
       Processes, Stages, Asking, Waiting, Modes, Vaults, NoVault, Off
<1>9. ASSUME RegistrationRetry PROVE CliInv'
  BY <1>9, CliAssumption, SecretsAssumption DEF RegistrationRetry, CliInv, SecretsTypeOK,
       CliTypeOK, SeedRanges, SecretRanges, Locked, Registering, Goto, Processes, Stages,
       Asking, Waiting, Modes, Vaults, NoVault, Off
<1>10. ASSUME RegistrationBuilt PROVE CliInv'
  BY <1>10, CliAssumption, SecretsAssumption DEF RegistrationBuilt, CliInv, SecretsTypeOK,
       CliTypeOK, SeedRanges, SecretRanges, Locked, Registering, Goto, Processes, Stages,
       Asking, Waiting, Modes, Vaults, NoVault, Off
<1>11. ASSUME RegistrationAccepted PROVE CliInv'
  BY <1>11, CliAssumption, SecretsAssumption DEF RegistrationAccepted, CliInv, SecretsTypeOK,
       CliTypeOK, SeedRanges, SecretRanges, Locked, Registering, Goto, Processes, Stages,
       Asking, Waiting, Modes, Vaults, NoVault, Off
<1>12. ASSUME DustReceived PROVE CliInv'
  BY <1>12, CliAssumption, SecretsAssumption DEF DustReceived, Unregistered, CliInv,
       SecretsTypeOK, CliTypeOK, SeedRanges, SecretRanges, Locked, Registering, Goto,
       Processes, Stages, Asking, Waiting, Modes, Vaults, NoVault, Off
<1>13. ASSUME Throws PROVE CliInv'
  BY <1>13, CliAssumption, SecretsAssumption DEF Throws, Waiting, CliInv, SecretsTypeOK,
       CliTypeOK, SeedRanges, SecretRanges, Locked, Registering, Goto, Processes, Stages,
       Asking, Modes, Vaults, NoVault, Off
<1>14. ASSUME Ready PROVE CliInv'
  BY <1>14, CliAssumption, SecretsAssumption DEF Ready, CliInv, SecretsTypeOK, CliTypeOK,
       SeedRanges, SecretRanges, Locked, Registering, Goto, Processes, Stages, Asking,
       Waiting, Modes, Vaults, NoVault, Off
<1>15. ASSUME OpenAdminVault PROVE CliInv'
  BY <1>15, CliAssumption, SecretsAssumption DEF OpenAdminVault, AdminVaultMissing, CliInv,
       SecretsTypeOK, CliTypeOK, SeedRanges, SecretRanges, Locked, Registering, Goto,
       Processes, Stages, Asking, Waiting, Modes, Vaults, NoVault, Off
<1>16. ASSUME SaveAdminSecrets PROVE CliInv'
  BY <1>16, CliAssumption, SecretsAssumption DEF SaveAdminSecrets, CliInv, SecretsTypeOK,
       CliTypeOK, SeedRanges, SecretRanges, Locked, Registering, Goto, Processes, Stages,
       Asking, Waiting, Modes, Vaults, NoVault, Off
<1>17. ASSUME Providers PROVE CliInv'
  BY <1>17, CliAssumption, SecretsAssumption DEF Providers, CliInv, SecretsTypeOK, CliTypeOK,
       SeedRanges, SecretRanges, Locked, Registering, Goto, Processes, Stages, Asking,
       Waiting, Modes, Vaults, NoVault, Off
<1>18. ASSUME DeployContract PROVE CliInv'
  BY <1>18, CliAssumption, SecretsAssumption DEF DeployContract, Deploys, CliInv,
       SecretsTypeOK, CliTypeOK, SeedRanges, SecretRanges, Locked, Registering, Goto,
       Processes, Stages, Asking, Waiting, Modes, Vaults, NoVault, Off
<1>19. ASSUME ApproveDestination PROVE CliInv'
  BY <1>19, CliAssumption, SecretsAssumption DEF ApproveDestination, CliInv, SecretsTypeOK,
       CliTypeOK, SeedRanges, SecretRanges, Locked, Registering, Goto, Processes, Stages,
       Asking, Waiting, Modes, Vaults, NoVault, Off
<1>20. ASSUME Serve PROVE CliInv'
  <2>1. PICK c \in contracts : cli' = [cli EXCEPT !.stage = "serving", !.contract = c]
    BY <1>20 DEF Serve
  <2>2. /\ cli' \in Processes /\ cli'.stage = "serving" /\ cli'.contract = c
        /\ cli'.seed = cli.seed
    <3>1. c \in 0 .. MaxSecrets
      BY SecretsAssumption DEF CliInv, SecretsTypeOK
    <3>2. "serving" \in Stages
      BY DEF Stages
    <3> QED
      BY <2>1, <3>1, <3>2 DEF CliInv, CliTypeOK, Processes
  <2> QED
    BY <1>20, <2>2 DEF Serve, CliInv, SecretsTypeOK, CliTypeOK, SeedRanges, SecretRanges,
         Locked, Registering
<1>21. ASSUME Finally PROVE CliInv'
  BY <1>21, CliAssumption, SecretsAssumption DEF Finally, CliInv, SecretsTypeOK, CliTypeOK,
       SeedRanges, SecretRanges, Locked, Registering, Goto, Processes, Stages, Asking,
       Waiting, Modes, Vaults, NoVault, Off
<1>22. ASSUME RegistrationDeadline PROVE CliInv'
  BY <1>22, CliAssumption, SecretsAssumption DEF RegistrationDeadline, CliInv, SecretsTypeOK,
       CliTypeOK, SeedRanges, SecretRanges, Locked, Registering, Goto, Processes, Stages,
       Asking, Waiting, Modes, Vaults, NoVault, Off
<1>23. ASSUME NEW mode \in Modes, NEW withFile \in BOOLEAN, Start(mode, withFile) PROVE CliInv'
  <2>1. /\ cli' \in Processes /\ cli'.stage \in {"doctor", "openSeed"}
        /\ starts' \in 0 .. MaxStarts
    <3>1. cli' \in Processes
      <4>1. {"doctor", "openSeed"} \subseteq Stages
        BY DEF Stages
      <4> QED
        BY <1>23, <4>1, CliOff DEF Start, Processes
    <3>2. cli'.stage \in {"doctor", "openSeed"}
      BY <1>23 DEF Start, Off
    <3>3. starts' \in 0 .. MaxStarts
      BY <1>23, CliAssumption DEF Start, CliInv, CliTypeOK
    <3> QED
      BY <3>1, <3>2, <3>3
  <2> QED
    BY <1>23, <2>1 DEF Start, CliInv, SecretsTypeOK, CliTypeOK, SeedRanges, SecretRanges,
         Locked, Registering
<1>24. ASSUME WalletUnlocked PROVE CliInv'
  BY <1>24, CliAssumption, SecretsAssumption DEF WalletUnlocked, ReadPasswords, CliInv,
       SecretsTypeOK, CliTypeOK, SeedRanges, SecretRanges, Locked, Registering, Goto,
       Processes, Stages, Asking, Waiting, Modes, Vaults, NoVault, Off
<1>25. ASSUME WalletRefused PROVE CliInv'
  <2>1. passwordFile' \in BOOLEAN
    BY <1>25 DEF WalletRefused, ReadPasswords, CliInv, CliTypeOK
  <2> QED
    BY <1>25, <2>1, CliOff DEF WalletRefused, CliInv, SecretsTypeOK, CliTypeOK, SeedRanges,
         SecretRanges, Locked, Registering
<1>26. ASSUME WalletPasswordsMissing PROVE CliInv'
  BY <1>26, CliAssumption, SecretsAssumption DEF WalletPasswordsMissing, CliInv,
       SecretsTypeOK, CliTypeOK, SeedRanges, SecretRanges, Locked, Registering, Goto,
       Processes, Stages, Asking, Waiting, Modes, Vaults, NoVault, Off
<1>27. ASSUME CreateSeed PROVE CliInv'
  <2>1. CASE /\ seedsMade < MaxSeeds /\ seedsMade' = seedsMade + 1
             /\ cli' = [cli EXCEPT !.stage = "saveSeed", !.seed = seedsMade']
             /\ walletVault' = [file |-> "torn", holds |-> 0]
    <3>1. seedsMade' \in 1 .. MaxSeeds
      BY <2>1, CliAssumption DEF CliInv, CliTypeOK
    <3>2. cli' \in Processes /\ cli'.stage = "saveSeed" /\ cli'.seed = seedsMade'
      <4>1. seedsMade' \in 0 .. MaxSeeds
        BY <3>1
      <4>2. "saveSeed" \in Stages
        BY DEF Stages
      <4> QED
        BY <2>1, <4>1, <4>2 DEF CliInv, CliTypeOK, Processes
    <3>3. walletVault' \in Vaults(MaxSeeds)
      BY <2>1, CliAssumption DEF Vaults
    <3> QED
      BY <1>27, <2>1, <3>1, <3>2, <3>3 DEF CreateSeed, CliInv, SecretsTypeOK, CliTypeOK,
           SeedRanges, SecretRanges, Locked, Registering
  <2>2. CASE cli' = Off /\ UNCHANGED <<seedsMade, walletVault>>
    BY <1>27, <2>2, CliOff DEF CreateSeed, CliInv, SecretsTypeOK, CliTypeOK, SeedRanges,
         SecretRanges, Locked, Registering
  <2> QED
    BY <1>27, <2>1, <2>2 DEF CreateSeed
<1>28. ASSUME FaucetConfirmed PROVE CliInv'
  BY <1>28, CliAssumption, SecretsAssumption DEF FaucetConfirmed, CliInv, SecretsTypeOK,
       CliTypeOK, SeedRanges, SecretRanges, Locked, Registering, Goto, Processes, Stages,
       Asking, Waiting, Modes, Vaults, NoVault, Off
<1>29. ASSUME AdminUnlocked PROVE CliInv'
  BY <1>29, CliAssumption, SecretsAssumption DEF AdminUnlocked, ReadPasswords, CliInv,
       SecretsTypeOK, CliTypeOK, SeedRanges, SecretRanges, Locked, Registering, Goto,
       Processes, Stages, Asking, Waiting, Modes, Vaults, NoVault, Off
<1>30. ASSUME AdminPasswordsMissing PROVE CliInv'
  BY <1>30, CliAssumption, SecretsAssumption DEF AdminPasswordsMissing, AdminVaultMissing,
       CliInv, SecretsTypeOK, CliTypeOK, SeedRanges, SecretRanges, Locked, Registering, Goto,
       Processes, Stages, Asking, Waiting, Modes, Vaults, NoVault, Off
<1>31. ASSUME CreateAdminSecrets PROVE CliInv'
  <2>1. CASE /\ NewSecrets
             /\ cli' = [cli EXCEPT !.stage = "saveAdmin", !.secret = secretsMade']
             /\ adminVault' = [file |-> "torn", holds |-> 0]
    <3>1. secretsMade' \in 1 .. MaxSecrets /\ secretsMade' = secretsMade + 1
      BY <2>1, SecretsAssumption DEF CliInv, SecretsTypeOK, NewSecrets
    <3>2. /\ cli' \in Processes /\ cli'.stage = "saveAdmin" /\ cli'.secret = secretsMade'
          /\ cli'.seed = cli.seed
      <4>1. secretsMade' \in 0 .. MaxSecrets
        BY <3>1
      <4>2. "saveAdmin" \in Stages
        BY DEF Stages
      <4> QED
        BY <2>1, <4>1, <4>2 DEF CliInv, CliTypeOK, Processes
    <3>3. adminVault' \in Vaults(MaxSecrets)
      BY <2>1, SecretsAssumption DEF Vaults
    <3>4. UNCHANGED <<walletVault, passwordFile, chain, starts, seedsMade, misread>>
      BY <1>31 DEF CreateAdminSecrets
    <3> QED
      BY <1>31, <2>1, <3>1, <3>2, <3>3, <3>4 DEF CreateAdminSecrets, CliInv,
           SecretsTypeOK, CliTypeOK, SeedRanges, SecretRanges, Locked, Registering
  <2>2. CASE Goto("finally") /\ UNCHANGED <<secretsMade, adminVault>>
    BY <1>31, <2>2, CliGoes DEF CreateAdminSecrets, Stages, CliInv, SecretsTypeOK,
         CliTypeOK, SeedRanges, SecretRanges, Locked, Registering
  <2> QED
    BY <1>31, <2>1, <2>2 DEF CreateAdminSecrets
<1>32. ASSUME Signal PROVE CliInv'
  BY <1>32, CliAssumption, SecretsAssumption DEF Signal, CliInv, SecretsTypeOK, CliTypeOK,
       SeedRanges, SecretRanges, Locked, Registering, Goto, Processes, Stages, Asking,
       Waiting, Modes, Vaults, NoVault, Off
<1>33. ASSUME WritePasswordFile PROVE CliInv'
  BY <1>33, CliAssumption, SecretsAssumption DEF WritePasswordFile, CliInv, SecretsTypeOK,
       CliTypeOK, SeedRanges, SecretRanges, Locked, Registering, Goto, Processes, Stages,
       Asking, Waiting, Modes, Vaults, NoVault, Off
<1>34. ASSUME NEW s \in 1 .. MaxSeeds, Fund(s) PROVE CliInv'
  BY <1>34, CliAssumption, SecretsAssumption DEF Fund, CliInv, SecretsTypeOK, CliTypeOK,
       SeedRanges, SecretRanges, Locked, Registering, Goto, Processes, Stages, Asking,
       Waiting, Modes, Vaults, NoVault, Off
<1>35. ASSUME NEW h \in Handlers, Approve(h) PROVE CliInv'
  <2>1. cli.stage \in {"serving", "closing"}
    BY <1>35 DEF Approve, At, HandlersServed
  <2>2. approved' \subseteq contracts
    BY <1>35, <2>1 DEF Approve, CliInv, CliTypeOK, SecretRanges
  <2> QED
    BY <1>35, <2>2 DEF Approve, CliInv, SecretsTypeOK, CliTypeOK, SeedRanges, SecretRanges,
         Locked, Registering
<1>36. ASSUME ServerClosed PROVE CliInv'
  BY <1>36, CliAssumption, SecretsAssumption DEF ServerClosed, CliInv, SecretsTypeOK,
       CliTypeOK, SeedRanges, SecretRanges, Locked, Registering, Goto, Processes, Stages,
       Asking, Waiting, Modes, Vaults, NoVault, Off
<1>37. ASSUME ProcessCrash PROVE CliInv'
  BY <1>37, CliAssumption, SecretsAssumption DEF ProcessCrash, CliInv, SecretsTypeOK,
       CliTypeOK, SeedRanges, SecretRanges, Locked, Registering, Goto, Processes, Stages,
       Asking, Waiting, Modes, Vaults, NoVault, Off
<1>38. CASE UNCHANGED cliVars
  BY <1>38 DEF cliVars, CliInv, SecretsTypeOK, CliTypeOK, SeedRanges, SecretRanges, Locked,
       Registering, Goto, Processes, Stages, Asking, Waiting, Modes, Vaults, NoVault, Off
<1> QED
  BY <1>1, <1>2, <1>3, <1>4, <1>5, <1>6, <1>7, <1>8, <1>9, <1>10, <1>11, <1>12, <1>13, <1>14,
       <1>15, <1>16, <1>17, <1>18, <1>19, <1>20, <1>21, <1>22, <1>23, <1>24, <1>25, <1>26,
       <1>27, <1>28, <1>29, <1>30, <1>31, <1>32, <1>33, <1>34, <1>35, <1>36, <1>37, <1>38 DEF
       CliStep, CliOperator

(* The wallet vault. *)
LEMMA SeedStep ==
  ASSUME CliInv, SeedKept,
         CliStep \/ RegistrationDeadline \/ CliOperator \/ ServerClosed \/ ProcessCrash
           \/ (\E h \in Handlers : Approve(h)) \/ UNCHANGED cliVars
  PROVE  SeedKept'
<1> USE DEF files, chain, made, In
<1>1. ASSUME Doctor PROVE SeedKept'
  BY <1>1, CliAssumption DEF Doctor, CliInv, CliTypeOK, SeedRanges, SeedKept, Opening,
       Locked, Registering, Goto, Processes, Asking, Waiting, Vaults, Off
<1>2. ASSUME OpenWalletVault PROVE SeedKept'
  BY <1>2, CliAssumption DEF OpenWalletVault, CliInv, CliTypeOK, SeedRanges, SeedKept,
       Opening, Locked, Registering, Goto, Processes, Asking, Waiting, Vaults, Off
<1>3. ASSUME SaveSeed PROVE SeedKept'
  BY <1>3, CliAssumption DEF SaveSeed, CliInv, CliTypeOK, SeedRanges, SeedKept, Opening,
       Locked, Registering, Goto, Processes, Asking, Waiting, Vaults, Off
<1>4. ASSUME BuildWallet PROVE SeedKept'
  BY <1>4, CliAssumption DEF BuildWallet, CliInv, CliTypeOK, SeedRanges, SeedKept, Opening,
       Locked, Registering, Goto, Processes, Asking, Waiting, Vaults, Off
<1>5. ASSUME UnshieldedSynced PROVE SeedKept'
  BY <1>5, CliAssumption DEF UnshieldedSynced, CliInv, CliTypeOK, SeedRanges, SeedKept,
       Opening, Locked, Registering, Goto, Processes, Asking, Waiting, Vaults, Off
<1>6. ASSUME DustSynced PROVE SeedKept'
  BY <1>6, CliAssumption DEF DustSynced, CliInv, CliTypeOK, SeedRanges, SeedKept, Opening,
       Locked, Registering, Goto, Processes, Asking, Waiting, Vaults, Off
<1>7. ASSUME Balances PROVE SeedKept'
  BY <1>7, CliAssumption DEF Balances, Night, Unregistered, CliInv, CliTypeOK, SeedRanges,
       SeedKept, Opening, Locked, Registering, Goto, Processes, Asking, Waiting, Vaults, Off
<1>8. ASSUME NightReceived PROVE SeedKept'
  BY <1>8, CliAssumption DEF NightReceived, Night, Unregistered, CliInv, CliTypeOK,
       SeedRanges, SeedKept, Opening, Locked, Registering, Goto, Processes, Asking, Waiting,
       Vaults, Off
<1>9. ASSUME RegistrationRetry PROVE SeedKept'
  BY <1>9, CliAssumption DEF RegistrationRetry, CliInv, CliTypeOK, SeedRanges, SeedKept,
       Opening, Locked, Registering, Goto, Processes, Asking, Waiting, Vaults, Off
<1>10. ASSUME RegistrationBuilt PROVE SeedKept'
  BY <1>10, CliAssumption DEF RegistrationBuilt, CliInv, CliTypeOK, SeedRanges, SeedKept,
       Opening, Locked, Registering, Goto, Processes, Asking, Waiting, Vaults, Off
<1>11. ASSUME RegistrationAccepted PROVE SeedKept'
  BY <1>11, CliAssumption DEF RegistrationAccepted, CliInv, CliTypeOK, SeedRanges, SeedKept,
       Opening, Locked, Registering, Goto, Processes, Asking, Waiting, Vaults, Off
<1>12. ASSUME DustReceived PROVE SeedKept'
  BY <1>12, CliAssumption DEF DustReceived, Unregistered, CliInv, CliTypeOK, SeedRanges,
       SeedKept, Opening, Locked, Registering, Goto, Processes, Asking, Waiting, Vaults, Off
<1>13. ASSUME Throws PROVE SeedKept'
  BY <1>13, CliAssumption DEF Throws, Waiting, CliInv, CliTypeOK, SeedRanges, SeedKept,
       Opening, Locked, Registering, Goto, Processes, Asking, Vaults, Off
<1>14. ASSUME Ready PROVE SeedKept'
  BY <1>14, CliAssumption DEF Ready, CliInv, CliTypeOK, SeedRanges, SeedKept, Opening,
       Locked, Registering, Goto, Processes, Asking, Waiting, Vaults, Off
<1>15. ASSUME OpenAdminVault PROVE SeedKept'
  BY <1>15, CliAssumption DEF OpenAdminVault, AdminVaultMissing, CliInv, CliTypeOK,
       SeedRanges, SeedKept, Opening, Locked, Registering, Goto, Processes, Asking, Waiting,
       Vaults, Off
<1>16. ASSUME SaveAdminSecrets PROVE SeedKept'
  BY <1>16, CliAssumption DEF SaveAdminSecrets, CliInv, CliTypeOK, SeedRanges, SeedKept,
       Opening, Locked, Registering, Goto, Processes, Asking, Waiting, Vaults, Off
<1>17. ASSUME Providers PROVE SeedKept'
  BY <1>17, CliAssumption DEF Providers, CliInv, CliTypeOK, SeedRanges, SeedKept, Opening,
       Locked, Registering, Goto, Processes, Asking, Waiting, Vaults, Off
<1>18. ASSUME DeployContract PROVE SeedKept'
  BY <1>18, CliAssumption DEF DeployContract, Deploys, CliInv, CliTypeOK, SeedRanges,
       SeedKept, Opening, Locked, Registering, Goto, Processes, Asking, Waiting, Vaults, Off
<1>19. ASSUME ApproveDestination PROVE SeedKept'
  BY <1>19, CliAssumption DEF ApproveDestination, CliInv, CliTypeOK, SeedRanges, SeedKept,
       Opening, Locked, Registering, Goto, Processes, Asking, Waiting, Vaults, Off
<1>20. ASSUME Serve PROVE SeedKept'
  BY <1>20, CliAssumption DEF Serve, CliInv, CliTypeOK, SeedRanges, SeedKept, Opening,
       Locked, Registering, Goto, Processes, Asking, Waiting, Vaults, Off
<1>21. ASSUME Finally PROVE SeedKept'
  BY <1>21, CliAssumption DEF Finally, CliInv, CliTypeOK, SeedRanges, SeedKept, Opening,
       Locked, Registering, Goto, Processes, Asking, Waiting, Vaults, Off
<1>22. ASSUME RegistrationDeadline PROVE SeedKept'
  BY <1>22, CliAssumption DEF RegistrationDeadline, CliInv, CliTypeOK, SeedRanges, SeedKept,
       Opening, Locked, Registering, Goto, Processes, Asking, Waiting, Vaults, Off
<1>23. ASSUME NEW mode \in Modes, NEW withFile \in BOOLEAN, Start(mode, withFile)
       PROVE  SeedKept'
  BY <1>23, CliAssumption DEF Start, CliInv, CliTypeOK, SeedRanges, SeedKept, Opening,
       Locked, Registering, Goto, Processes, Asking, Waiting, Vaults, Off
<1>24. ASSUME WalletUnlocked PROVE SeedKept'
  BY <1>24, CliAssumption DEF WalletUnlocked, ReadPasswords, CliInv, CliTypeOK, SeedRanges,
       SeedKept, Opening, Locked, Registering, Goto, Processes, Asking, Waiting, Vaults, Off
<1>25. ASSUME WalletRefused PROVE SeedKept'
  BY <1>25, CliAssumption DEF WalletRefused, ReadPasswords, CliInv, CliTypeOK, SeedRanges,
       SeedKept, Opening, Locked, Registering, Goto, Processes, Asking, Waiting, Vaults, Off
<1>26. ASSUME WalletPasswordsMissing PROVE SeedKept'
  BY <1>26, CliAssumption DEF WalletPasswordsMissing, CliInv, CliTypeOK, SeedRanges,
       SeedKept, Opening, Locked, Registering, Goto, Processes, Asking, Waiting, Vaults, Off
<1>27. ASSUME CreateSeed PROVE SeedKept'
  <2>1. CASE /\ cli' = [cli EXCEPT !.stage = "saveSeed", !.seed = seedsMade']
             /\ walletVault' = [file |-> "torn", holds |-> 0]
    <3>1. cli'.stage = "saveSeed"
      BY <2>1 DEF CliInv, CliTypeOK, Processes
    <3>2. ~misread => printed = {}
      BY <1>27 DEF CreateSeed, SeedKept
    <3> QED
      BY <1>27, <3>1, <3>2 DEF CreateSeed, SeedKept, Opening, Locked
  <2>2. CASE cli' = Off /\ UNCHANGED walletVault
    BY <1>27, <2>2 DEF CreateSeed, SeedKept, Off, Opening, Locked
  <2> QED
    BY <1>27, <2>1, <2>2 DEF CreateSeed
<1>28. ASSUME FaucetConfirmed PROVE SeedKept'
  BY <1>28, CliAssumption DEF FaucetConfirmed, CliInv, CliTypeOK, SeedRanges, SeedKept,
       Opening, Locked, Registering, Goto, Processes, Asking, Waiting, Vaults, Off
<1>29. ASSUME AdminUnlocked PROVE SeedKept'
  BY <1>29, CliAssumption DEF AdminUnlocked, ReadPasswords, CliInv, CliTypeOK, SeedRanges,
       SeedKept, Opening, Locked, Registering, Goto, Processes, Asking, Waiting, Vaults, Off
<1>30. ASSUME AdminPasswordsMissing PROVE SeedKept'
  BY <1>30, CliAssumption DEF AdminPasswordsMissing, AdminVaultMissing, CliInv, CliTypeOK,
       SeedRanges, SeedKept, Opening, Locked, Registering, Goto, Processes, Asking, Waiting,
       Vaults, Off
<1>31. ASSUME CreateAdminSecrets PROVE SeedKept'
  BY <1>31, CliAssumption DEF CreateAdminSecrets, NewSecrets, CliInv, CliTypeOK, SeedRanges,
       SeedKept, Opening, Locked, Registering, Goto, Processes, Asking, Waiting, Vaults, Off
<1>32. ASSUME Signal PROVE SeedKept'
  BY <1>32, CliAssumption DEF Signal, CliInv, CliTypeOK, SeedRanges, SeedKept, Opening,
       Locked, Registering, Goto, Processes, Asking, Waiting, Vaults, Off
<1>33. ASSUME WritePasswordFile PROVE SeedKept'
  BY <1>33, CliAssumption DEF WritePasswordFile, CliInv, CliTypeOK, SeedRanges, SeedKept,
       Opening, Locked, Registering, Goto, Processes, Asking, Waiting, Vaults, Off
<1>34. ASSUME NEW s \in 1 .. MaxSeeds, Fund(s) PROVE SeedKept'
  BY <1>34, CliAssumption DEF Fund, CliInv, CliTypeOK, SeedRanges, SeedKept, Opening, Locked,
       Registering, Goto, Processes, Asking, Waiting, Vaults, Off
<1>35. ASSUME NEW h \in Handlers, Approve(h) PROVE SeedKept'
  BY <1>35, CliAssumption DEF Approve, CliInv, CliTypeOK, SeedRanges, SeedKept, Opening,
       Locked, Registering, Goto, Processes, Asking, Waiting, Vaults, Off
<1>36. ASSUME ServerClosed PROVE SeedKept'
  BY <1>36, CliAssumption DEF ServerClosed, CliInv, CliTypeOK, SeedRanges, SeedKept, Opening,
       Locked, Registering, Goto, Processes, Asking, Waiting, Vaults, Off
<1>37. ASSUME ProcessCrash PROVE SeedKept'
  BY <1>37, CliAssumption DEF ProcessCrash, CliInv, CliTypeOK, SeedRanges, SeedKept, Opening,
       Locked, Registering, Goto, Processes, Asking, Waiting, Vaults, Off
<1>38. CASE UNCHANGED cliVars
  BY <1>38 DEF cliVars, CliInv, CliTypeOK, SeedRanges, SeedKept, Opening, Locked,
       Registering, Goto, Processes, Asking, Waiting, Vaults, Off
<1> QED
  BY <1>1, <1>2, <1>3, <1>4, <1>5, <1>6, <1>7, <1>8, <1>9, <1>10, <1>11, <1>12, <1>13, <1>14,
       <1>15, <1>16, <1>17, <1>18, <1>19, <1>20, <1>21, <1>22, <1>23, <1>24, <1>25, <1>26,
       <1>27, <1>28, <1>29, <1>30, <1>31, <1>32, <1>33, <1>34, <1>35, <1>36, <1>37, <1>38 DEF
       CliStep, CliOperator

(* The vault of the role secrets. *)
LEMMA SecretStep ==
  ASSUME CliInv, SecretKept, UNCHANGED <<downloads, overlapped>>,
         CliStep \/ RegistrationDeadline \/ CliOperator \/ ServerClosed \/ ProcessCrash
           \/ (\E h \in Handlers : Approve(h)) \/ UNCHANGED cliVars
  PROVE  SecretKept'
<1> USE DEF files, chain, made, In
<1>1. ASSUME Doctor PROVE SecretKept'
  BY <1>1, CliAssumption DEF Doctor, CliInv, CliTypeOK, SecretRanges, SecretKept, Goto,
       Processes, Asking, Waiting, Vaults, Off
<1>2. ASSUME OpenWalletVault PROVE SecretKept'
  BY <1>2, CliAssumption DEF OpenWalletVault, CliInv, CliTypeOK, SecretRanges, SecretKept,
       Goto, Processes, Asking, Waiting, Vaults, Off
<1>3. ASSUME SaveSeed PROVE SecretKept'
  BY <1>3, CliAssumption DEF SaveSeed, CliInv, CliTypeOK, SecretRanges, SecretKept, Goto,
       Processes, Asking, Waiting, Vaults, Off
<1>4. ASSUME BuildWallet PROVE SecretKept'
  BY <1>4, CliAssumption DEF BuildWallet, CliInv, CliTypeOK, SecretRanges, SecretKept, Goto,
       Processes, Asking, Waiting, Vaults, Off
<1>5. ASSUME UnshieldedSynced PROVE SecretKept'
  BY <1>5, CliAssumption DEF UnshieldedSynced, CliInv, CliTypeOK, SecretRanges, SecretKept,
       Goto, Processes, Asking, Waiting, Vaults, Off
<1>6. ASSUME DustSynced PROVE SecretKept'
  BY <1>6, CliAssumption DEF DustSynced, CliInv, CliTypeOK, SecretRanges, SecretKept, Goto,
       Processes, Asking, Waiting, Vaults, Off
<1>7. ASSUME Balances PROVE SecretKept'
  BY <1>7, CliAssumption DEF Balances, Night, Unregistered, CliInv, CliTypeOK, SecretRanges,
       SecretKept, Goto, Processes, Asking, Waiting, Vaults, Off
<1>8. ASSUME NightReceived PROVE SecretKept'
  BY <1>8, CliAssumption DEF NightReceived, Night, Unregistered, CliInv, CliTypeOK,
       SecretRanges, SecretKept, Goto, Processes, Asking, Waiting, Vaults, Off
<1>9. ASSUME RegistrationRetry PROVE SecretKept'
  BY <1>9, CliAssumption DEF RegistrationRetry, CliInv, CliTypeOK, SecretRanges, SecretKept,
       Goto, Processes, Asking, Waiting, Vaults, Off
<1>10. ASSUME RegistrationBuilt PROVE SecretKept'
  BY <1>10, CliAssumption DEF RegistrationBuilt, CliInv, CliTypeOK, SecretRanges, SecretKept,
       Goto, Processes, Asking, Waiting, Vaults, Off
<1>11. ASSUME RegistrationAccepted PROVE SecretKept'
  BY <1>11, CliAssumption DEF RegistrationAccepted, CliInv, CliTypeOK, SecretRanges,
       SecretKept, Goto, Processes, Asking, Waiting, Vaults, Off
<1>12. ASSUME DustReceived PROVE SecretKept'
  BY <1>12, CliAssumption DEF DustReceived, Unregistered, CliInv, CliTypeOK, SecretRanges,
       SecretKept, Goto, Processes, Asking, Waiting, Vaults, Off
<1>13. ASSUME Throws PROVE SecretKept'
  BY <1>13, CliAssumption DEF Throws, Waiting, CliInv, CliTypeOK, SecretRanges, SecretKept,
       Goto, Processes, Asking, Vaults, Off
<1>14. ASSUME Ready PROVE SecretKept'
  BY <1>14, CliAssumption DEF Ready, CliInv, CliTypeOK, SecretRanges, SecretKept, Goto,
       Processes, Asking, Waiting, Vaults, Off
<1>15. ASSUME OpenAdminVault PROVE SecretKept'
  BY <1>15, CliAssumption DEF OpenAdminVault, AdminVaultMissing, CliInv, CliTypeOK,
       SecretRanges, SecretKept, Goto, Processes, Asking, Waiting, Vaults, Off
<1>16. ASSUME SaveAdminSecrets PROVE SecretKept'
  BY <1>16, CliAssumption DEF SaveAdminSecrets, CliInv, CliTypeOK, SecretRanges, SecretKept,
       Goto, Processes, Asking, Waiting, Vaults, Off
<1>17. ASSUME Providers PROVE SecretKept'
  BY <1>17, CliAssumption DEF Providers, CliInv, CliTypeOK, SecretRanges, SecretKept, Goto,
       Processes, Asking, Waiting, Vaults, Off
<1>18. ASSUME DeployContract PROVE SecretKept'
  BY <1>18, CliAssumption DEF DeployContract, Deploys, CliInv, CliTypeOK, SecretRanges,
       SecretKept, Goto, Processes, Asking, Waiting, Vaults, Off
<1>19. ASSUME ApproveDestination PROVE SecretKept'
  BY <1>19, CliAssumption DEF ApproveDestination, CliInv, CliTypeOK, SecretRanges,
       SecretKept, Goto, Processes, Asking, Waiting, Vaults, Off
<1>20. ASSUME Serve PROVE SecretKept'
  BY <1>20, CliAssumption DEF Serve, CliInv, CliTypeOK, SecretRanges, SecretKept, Goto,
       Processes, Asking, Waiting, Vaults, Off
<1>21. ASSUME Finally PROVE SecretKept'
  BY <1>21, CliAssumption DEF Finally, CliInv, CliTypeOK, SecretRanges, SecretKept, Goto,
       Processes, Asking, Waiting, Vaults, Off
<1>22. ASSUME RegistrationDeadline PROVE SecretKept'
  BY <1>22, CliAssumption DEF RegistrationDeadline, CliInv, CliTypeOK, SecretRanges,
       SecretKept, Goto, Processes, Asking, Waiting, Vaults, Off
<1>23. ASSUME NEW mode \in Modes, NEW withFile \in BOOLEAN, Start(mode, withFile)
       PROVE  SecretKept'
  BY <1>23, CliAssumption DEF Start, CliInv, CliTypeOK, SecretRanges, SecretKept, Goto,
       Processes, Asking, Waiting, Vaults, Off
<1>24. ASSUME WalletUnlocked PROVE SecretKept'
  BY <1>24, CliAssumption DEF WalletUnlocked, ReadPasswords, CliInv, CliTypeOK, SecretRanges,
       SecretKept, Goto, Processes, Asking, Waiting, Vaults, Off
<1>25. ASSUME WalletRefused PROVE SecretKept'
  BY <1>25, CliAssumption DEF WalletRefused, ReadPasswords, CliInv, CliTypeOK, SecretRanges,
       SecretKept, Goto, Processes, Asking, Waiting, Vaults, Off
<1>26. ASSUME WalletPasswordsMissing PROVE SecretKept'
  BY <1>26, CliAssumption DEF WalletPasswordsMissing, CliInv, CliTypeOK, SecretRanges,
       SecretKept, Goto, Processes, Asking, Waiting, Vaults, Off
<1>27. ASSUME CreateSeed PROVE SecretKept'
  <2>1. cli'.stage \in {"saveSeed", "off"}
    <3>1. cli' = [cli EXCEPT !.stage = "saveSeed", !.seed = seedsMade'] \/ cli' = Off
      BY <1>27 DEF CreateSeed
    <3>2. cli' = Off => cli'.stage = "off"
      BY DEF Off
    <3> QED
      BY <3>1, <3>2 DEF CliInv, CliTypeOK, Processes
  <2> QED
    BY <1>27, <2>1 DEF CreateSeed, SecretKept
<1>28. ASSUME FaucetConfirmed PROVE SecretKept'
  BY <1>28, CliAssumption DEF FaucetConfirmed, CliInv, CliTypeOK, SecretRanges, SecretKept,
       Goto, Processes, Asking, Waiting, Vaults, Off
<1>29. ASSUME AdminUnlocked PROVE SecretKept'
  BY <1>29, CliAssumption DEF AdminUnlocked, ReadPasswords, CliInv, CliTypeOK, SecretRanges,
       SecretKept, Goto, Processes, Asking, Waiting, Vaults, Off
<1>30. ASSUME AdminPasswordsMissing PROVE SecretKept'
  BY <1>30, CliAssumption DEF AdminPasswordsMissing, AdminVaultMissing, CliInv, CliTypeOK,
       SecretRanges, SecretKept, Goto, Processes, Asking, Waiting, Vaults, Off
<1>31. ASSUME CreateAdminSecrets PROVE SecretKept'
  <2>1. CASE /\ cli' = [cli EXCEPT !.stage = "saveAdmin", !.secret = secretsMade']
             /\ adminVault' = [file |-> "torn", holds |-> 0]
    <3>1. cli'.stage = "saveAdmin"
      BY <2>1 DEF CliInv, CliTypeOK, Processes
    <3>2. ~misread /\ ~overlapped => contracts \subseteq downloads
      BY <1>31 DEF CreateAdminSecrets, SecretKept
    <3> QED
      BY <1>31, <3>1, <3>2 DEF CreateAdminSecrets, SecretKept
  <2>2. CASE Goto("finally") /\ UNCHANGED adminVault
    BY <1>31, <2>2, CliGoes DEF CreateAdminSecrets, SecretKept, Stages, CliInv, CliTypeOK
  <2> QED
    BY <1>31, <2>1, <2>2 DEF CreateAdminSecrets
<1>32. ASSUME Signal PROVE SecretKept'
  BY <1>32, CliAssumption DEF Signal, CliInv, CliTypeOK, SecretRanges, SecretKept, Goto,
       Processes, Asking, Waiting, Vaults, Off
<1>33. ASSUME WritePasswordFile PROVE SecretKept'
  BY <1>33, CliAssumption DEF WritePasswordFile, CliInv, CliTypeOK, SecretRanges, SecretKept,
       Goto, Processes, Asking, Waiting, Vaults, Off
<1>34. ASSUME NEW s \in 1 .. MaxSeeds, Fund(s) PROVE SecretKept'
  BY <1>34, CliAssumption DEF Fund, CliInv, CliTypeOK, SecretRanges, SecretKept, Goto,
       Processes, Asking, Waiting, Vaults, Off
<1>35. ASSUME NEW h \in Handlers, Approve(h) PROVE SecretKept'
  BY <1>35, CliAssumption DEF Approve, CliInv, CliTypeOK, SecretRanges, SecretKept, Goto,
       Processes, Asking, Waiting, Vaults, Off
<1>36. ASSUME ServerClosed PROVE SecretKept'
  BY <1>36, CliAssumption DEF ServerClosed, CliInv, CliTypeOK, SecretRanges, SecretKept,
       Goto, Processes, Asking, Waiting, Vaults, Off
<1>37. ASSUME ProcessCrash PROVE SecretKept'
  BY <1>37, CliAssumption DEF ProcessCrash, CliInv, CliTypeOK, SecretRanges, SecretKept,
       Goto, Processes, Asking, Waiting, Vaults, Off
<1>38. CASE UNCHANGED cliVars
  BY <1>38 DEF cliVars, CliInv, CliTypeOK, SecretRanges, SecretKept, Goto, Processes, Asking,
       Waiting, Vaults, Off
<1> QED
  BY <1>1, <1>2, <1>3, <1>4, <1>5, <1>6, <1>7, <1>8, <1>9, <1>10, <1>11, <1>12, <1>13, <1>14,
       <1>15, <1>16, <1>17, <1>18, <1>19, <1>20, <1>21, <1>22, <1>23, <1>24, <1>25, <1>26,
       <1>27, <1>28, <1>29, <1>30, <1>31, <1>32, <1>33, <1>34, <1>35, <1>36, <1>37, <1>38 DEF
       CliStep, CliOperator
(* Pairs of secrets are only ever added. *)
LEMMA SecretsMadeGrow ==
  ASSUME CliInv, CliStep \/ RegistrationDeadline \/ CliOperator
  PROVE  secretsMade' \in Nat /\ secretsMade <= secretsMade'
<1> USE DEF files, chain, made
<1>1. CliStep => secretsMade' = secretsMade \/ NewSecrets
  BY DEF CliStep, Doctor, OpenWalletVault, SaveSeed, BuildWallet, UnshieldedSynced, DustSynced,
         Balances, NightReceived, RegistrationRetry, RegistrationBuilt, RegistrationAccepted,
         DustReceived, Throws, Ready, OpenAdminVault, SaveAdminSecrets, Providers,
         DeployContract, ApproveDestination, Serve, Finally
<1>2. RegistrationDeadline => secretsMade' = secretsMade
  BY DEF RegistrationDeadline
<1>3. CliOperator => secretsMade' = secretsMade \/ NewSecrets
  BY DEF CliOperator, Start, WalletUnlocked, WalletRefused, WalletPasswordsMissing, CreateSeed,
         FaucetConfirmed, AdminUnlocked, AdminPasswordsMissing, CreateAdminSecrets,
         Signal, WritePasswordFile, Fund
<1>4. secretsMade \in 0 .. MaxSecrets
  BY DEF CliInv, SecretsTypeOK
<1> QED
  BY <1>1, <1>2, <1>3, <1>4 DEF NewSecrets

-----------------------------------------------------------------------------
(* How the requests change. *)

(* The empty answer is one. *)
LEMMA NoAnswerTyped == NoAnswer \in Answers
BY DEF NoAnswer, Answers

(* Types of the requests and of what is answered. *)
LEMMA RoutesTypes ==
  ASSUME RoutesTypeOK, CliInv, HandlersServed,
         (RoutesStep /\ ~ServerClosed) \/ RoutesClients \/ ProcessCrash \/ UNCHANGED routesVars
  PROVE  RoutesTypeOK'
<1>1. ASSUME NEW h \in Handlers, Admitted(h) PROVE RoutesTypeOK'
  BY <1>1, SecretsAssumption DEF Admitted, At, Advance, Reply, Answered,
       RoutesTypeOK, Requests, NoRequest, Places, Routes, Answers, NoAnswer,
       HandlersServed, SecretRanges, CliInv, SecretsTypeOK
<1>2. ASSUME NEW h \in Handlers, Rejected(h) PROVE RoutesTypeOK'
  BY <1>2, SecretsAssumption DEF Rejected, At, Advance, Reply, Answered,
       RoutesTypeOK, Requests, NoRequest, Places, Routes, Answers, NoAnswer,
       HandlersServed, SecretRanges, CliInv, SecretsTypeOK
<1>3. ASSUME NEW h \in Handlers, ContactFound(h) PROVE RoutesTypeOK'
  BY <1>3, SecretsAssumption DEF ContactFound, At, Advance, Reply, Answered,
       RoutesTypeOK, Requests, NoRequest, Places, Routes, Answers, NoAnswer,
       HandlersServed, SecretRanges, CliInv, SecretsTypeOK
<1>4. ASSUME NEW h \in Handlers, AskLedger(h) PROVE RoutesTypeOK'
  BY <1>4, SecretsAssumption DEF AskLedger, Qualifies, At, Advance, Reply,
       Answered, RoutesTypeOK, Requests, NoRequest, Places, Routes, Answers, NoAnswer,
       HandlersServed, SecretRanges, CliInv, SecretsTypeOK
<1>5. ASSUME NEW h \in Handlers, Approve(h) PROVE RoutesTypeOK'
  <2>1. answer' \in Answers
    <3>1. cli.contract \in 1 .. MaxSecrets
      <4>1. At(h, "approve") /\ handler[h].at # "idle"
        BY <1>5 DEF Approve, At
      <4>2. cli.contract \in contracts
        BY <4>1 DEF At, HandlersServed, SecretRanges, CliInv
      <4>3. contracts \subseteq 1 .. secretsMade /\ secretsMade \in 0 .. MaxSecrets
        BY DEF CliInv, SecretsTypeOK
      <4>4. cli.contract \in 1 .. secretsMade
        BY <4>2, <4>3
      <4> QED
        BY <4>3, <4>4, SecretsAssumption
    <3> QED
      BY <1>5, <3>1 DEF Approve, Qualifies, Reply, Answered, Answers, NoAnswer
  <2>2. \E a : Reply(h, a)
    BY <1>5 DEF Approve, Qualifies, Answered
  <2>3. handler' \in [Handlers -> Requests]
    BY <2>2 DEF Reply, RoutesTypeOK, Requests, NoRequest, Routes, Places
  <2> QED
    BY <2>1, <2>3 DEF RoutesTypeOK
<1>6. ASSUME NEW h \in Handlers, AlreadyApproved(h) PROVE RoutesTypeOK'
  BY <1>6, SecretsAssumption DEF AlreadyApproved, Qualifies, At, Advance, Reply,
       Answered, RoutesTypeOK, Requests, NoRequest, Places, Routes, Answers, NoAnswer,
       HandlersServed, SecretRanges, CliInv, SecretsTypeOK
<1>7. ASSUME NEW h \in Handlers, NEW text \in Texts, Moderated(h, text) PROVE RoutesTypeOK'
  BY <1>7, SecretsAssumption DEF Moderated, At, Advance, Reply, Answered,
       RoutesTypeOK, Requests, NoRequest, Places, Routes, Answers, NoAnswer,
       HandlersServed, SecretRanges, CliInv, SecretsTypeOK
<1>8. ASSUME NEW h \in Handlers, NEW transaction \in Transactions, Sponsored(h, transaction)
      PROVE  RoutesTypeOK'
  BY <1>8, SecretsAssumption DEF Sponsored, At, Advance, Reply, Answered,
       RoutesTypeOK, Requests, NoRequest, Places, Routes, Answers, NoAnswer,
       HandlersServed, SecretRanges, CliInv, SecretsTypeOK
<1>9. ASSUME NEW h \in Handlers, NEW route \in Routes, Arrive(h, route)
       PROVE  RoutesTypeOK'
  BY <1>9, SecretsAssumption DEF Arrive, At, Advance, Reply, Answered,
       RoutesTypeOK, Requests, NoRequest, Places, Routes, Answers, NoAnswer,
       HandlersServed, SecretRanges, CliInv, SecretsTypeOK
<1>10. ASSUME ProcessCrash PROVE RoutesTypeOK'
  BY <1>10, SecretsAssumption DEF ProcessCrash, At, Advance, Reply, Answered,
       RoutesTypeOK, Requests, NoRequest, Places, Routes, Answers, NoAnswer,
       HandlersServed, SecretRanges, CliInv, SecretsTypeOK
<1>11. CASE UNCHANGED routesVars
  BY <1>11 DEF routesVars, At, RoutesTypeOK, Requests, NoRequest, Places, Routes, Answers,
       NoAnswer, HandlersServed, SecretRanges, CliInv, SecretsTypeOK
<1> QED
  BY <1>1, <1>2, <1>3, <1>4, <1>5, <1>6, <1>7, <1>8, <1>9, <1>10,
       <1>11 DEF RoutesStep, RoutesClients

-----------------------------------------------------------------------------
(* The console. *)

(* Every step of the console keeps its types, ranges and controls consistent;
   pairs, contracts and downloads only grow. *)
LEMMA ConsoleStep ==
  ASSUME SecretsTypeOK, ConsoleInv, ConsoleNext
  PROVE  /\ SecretsTypeOK' /\ ConsoleInv'
         /\ secretsMade' \in secretsMade .. MaxSecrets
         /\ contracts \subseteq contracts' /\ downloads \subseteq downloads'
<1>0. ConsoleTypeOK /\ secretsMade \in 0 .. MaxSecrets
  BY DEF ConsoleInv, SecretsTypeOK
<1>1. CASE connect
  <2>1. ConsoleTypeOK'
    BY <1>0, <1>1 DEF connect, ConsoleTypeOK, Consoles
  <2>2. ConsoleInv'
    BY <1>0, <1>1, <2>1 DEF connect, ConsoleInv, ConsoleTypeOK, Consoles
  <2> QED
    BY <1>0, <1>1, <2>2 DEF connect, SecretsTypeOK, ConsoleTypeOK
<1>2. ASSUME NEW longEnough \in BOOLEAN, prepare(longEnough)
      PROVE  /\ SecretsTypeOK' /\ ConsoleInv'
             /\ secretsMade' \in secretsMade .. MaxSecrets
             /\ contracts \subseteq contracts' /\ downloads \subseteq downloads'
  <2>1. secretsMade' = secretsMade + 1 /\ secretsMade' \in 1 .. MaxSecrets
    BY <1>0, <1>2, SecretsAssumption DEF prepare, NewSecrets
  <2>2. secretsMade' \in Secrets /\ secretsMade' \in 0 .. MaxSecrets
    BY <2>1 DEF Secrets
  <2>3. ConsoleTypeOK'
    BY <1>0, <1>2, <2>2 DEF prepare, ConsoleTypeOK, Consoles
  <2>4. /\ console'.secret = secretsMade' /\ console'.deploying = console.deploying
        /\ console'.encrypting \subseteq console.encrypting \cup {secretsMade'}
        /\ console'.connected = console.connected /\ console'.deployed = console.deployed
        /\ console'.deployOn = console.deployOn /\ console'.confirmOn = console.confirmOn
        /\ console'.prepareOn = console.prepareOn /\ console.prepareOn
        /\ UNCHANGED <<downloads, contracts>>
    BY <1>0, <1>2 DEF prepare, ConsoleTypeOK, Consoles
  <2>5. ConsoleInv'
    BY <1>0, <2>1, <2>3, <2>4, SecretsAssumption DEF ConsoleInv
  <2> QED
    BY <1>0, <2>1, <2>4, <2>5, SecretsAssumption DEF SecretsTypeOK
<1>3. CASE prepareDeployed
  <2>0. console.secret \in Secrets
    BY <1>0, <1>3, SecretsAssumption
       DEF prepareDeployed, ConsoleInv, ConsoleTypeOK, Consoles, Secrets
  <2>1. ConsoleTypeOK'
    BY <1>0, <1>3, <2>0 DEF prepareDeployed, ConsoleTypeOK, Consoles
  <2>2. ConsoleInv'
    BY <1>0, <1>3, <2>1, <2>0 DEF prepareDeployed, ConsoleInv, ConsoleTypeOK, Consoles
  <2> QED
    BY <1>0, <1>3, <2>2 DEF prepareDeployed, SecretsTypeOK, ConsoleTypeOK
<1>4. CASE backupConfirmed
  <2>1. ConsoleTypeOK'
    BY <1>0, <1>4 DEF backupConfirmed, ConsoleTypeOK, Consoles
  <2>2. ConsoleInv'
    BY <1>0, <1>4, <2>1 DEF backupConfirmed, ConsoleInv, ConsoleTypeOK, Consoles
  <2> QED
    BY <1>0, <1>4, <2>2 DEF backupConfirmed, SecretsTypeOK, ConsoleTypeOK
<1>5. CASE deploy
  <2>0. console.secret \in 1 .. secretsMade /\ console.secret \in Secrets
    BY <1>0, <1>5, SecretsAssumption DEF deploy, ConsoleInv, ConsoleTypeOK, Consoles, Secrets
  <2>1. ConsoleTypeOK'
    BY <1>0, <1>5, <2>0 DEF deploy, ConsoleTypeOK, Consoles
  <2>2. ConsoleInv'
    BY <1>0, <1>5, <2>1, <2>0 DEF deploy, ConsoleInv, ConsoleTypeOK, Consoles
  <2> QED
    BY <1>0, <1>5, <2>2 DEF deploy, SecretsTypeOK, ConsoleTypeOK
<1>6. CASE ClosePage
  <2>0. NewPage \in Consoles
    BY SecretsAssumption DEF NewPage, Consoles
  <2>1. ConsoleTypeOK'
    BY <1>0, <1>6, <2>0 DEF ClosePage, ConsoleTypeOK, Consoles
  <2>2. ConsoleInv'
    BY <1>0, <1>6, <2>1, <2>0 DEF ClosePage, NewPage, ConsoleInv, ConsoleTypeOK, Consoles
  <2> QED
    BY <1>0, <1>6, <2>2 DEF ClosePage, SecretsTypeOK, ConsoleTypeOK
<1>7. ASSUME NEW s \in Secrets, downloadBackup(s)
      PROVE  /\ SecretsTypeOK' /\ ConsoleInv'
             /\ secretsMade' \in secretsMade .. MaxSecrets
             /\ contracts \subseteq contracts' /\ downloads \subseteq downloads'
  <2>1. ConsoleTypeOK'
    BY <1>0, <1>7 DEF downloadBackup, ConsoleTypeOK, Consoles
  <2>2. ConsoleInv'
    BY <1>0, <1>7, <2>1 DEF downloadBackup, ConsoleInv, ConsoleTypeOK, Consoles
  <2> QED
    BY <1>0, <1>7, <2>2 DEF downloadBackup, SecretsTypeOK, ConsoleTypeOK
<1>8. ASSUME NEW s \in Secrets, downloadDeployed(s)
      PROVE  /\ SecretsTypeOK' /\ ConsoleInv'
             /\ secretsMade' \in secretsMade .. MaxSecrets
             /\ contracts \subseteq contracts' /\ downloads \subseteq downloads'
  <2>1. ConsoleTypeOK'
    BY <1>0, <1>8 DEF downloadDeployed, ConsoleTypeOK, Consoles
  <2>2. ConsoleInv'
    BY <1>0, <1>8, <2>1 DEF downloadDeployed, ConsoleInv, ConsoleTypeOK, Consoles
  <2> QED
    BY <1>0, <1>8, <2>2 DEF downloadDeployed, SecretsTypeOK, ConsoleTypeOK
<1>9. ASSUME NEW s \in Secrets, EncryptionFails(s)
      PROVE  /\ SecretsTypeOK' /\ ConsoleInv'
             /\ secretsMade' \in secretsMade .. MaxSecrets
             /\ contracts \subseteq contracts' /\ downloads \subseteq downloads'
  <2>1. ConsoleTypeOK'
    BY <1>0, <1>9 DEF EncryptionFails, ConsoleTypeOK, Consoles
  <2>2. ConsoleInv'
    BY <1>0, <1>9, <2>1 DEF EncryptionFails, ConsoleInv, ConsoleTypeOK, Consoles
  <2> QED
    BY <1>0, <1>9, <2>2 DEF EncryptionFails, SecretsTypeOK, ConsoleTypeOK
<1>10. ASSUME NEW s \in Secrets, Deployed(s) \/ NotDeployed(s)
      PROVE  /\ SecretsTypeOK' /\ ConsoleInv'
             /\ secretsMade' \in secretsMade .. MaxSecrets
             /\ contracts \subseteq contracts' /\ downloads \subseteq downloads'
  <2>0. contracts' \subseteq contracts \cup {s} /\ contracts \subseteq contracts'
        /\ s \in 1 .. secretsMade /\ UNCHANGED <<downloads, secretsMade>>
    BY <1>10 DEF Deployed, NotDeployed, Deploys, ConsoleInv
  <2>1. ConsoleTypeOK'
    BY <1>0, <1>10 DEF Deployed, NotDeployed, ConsoleTypeOK, Consoles
  <2>2. ConsoleInv'
    <3>1. /\ console'.secret = console.secret /\ console'.encrypting = console.encrypting
          /\ console'.deploying \subseteq console.deploying /\ console.deploying # {}
          /\ console'.connected = console.connected /\ console'.confirmOn = console.confirmOn
          /\ console'.deployOn = console.deployOn
      BY <1>0, <1>10 DEF Deployed, NotDeployed, ConsoleTypeOK, Consoles
    <3>2. console.connected /\ console.confirmOn /\ console.secret # 0
      BY <3>1 DEF ConsoleInv
    <3> QED
      BY <1>0, <2>0, <2>1, <3>1, <3>2 DEF ConsoleInv
  <2> QED
    BY <1>0, <2>0, <2>2 DEF SecretsTypeOK
<1> QED
  BY <1>1, <1>2, <1>3, <1>4, <1>5, <1>6, <1>7, <1>8, <1>9, <1>10 DEF ConsoleNext

(* The pair that is deployed was downloaded, unless encryptions overlapped. *)
LEMMA BackupStep ==
  ASSUME SecretsTypeOK, ConsoleInv, BackedUp, ConsoleNext
  PROVE  /\ BackedUp'
         /\ ~overlapped' => ~overlapped /\ contracts' \subseteq contracts \cup downloads'
<1> USE DEF ConsoleInv, ConsoleTypeOK, Consoles, BackedUp
<1> DEFINE Goal == /\ BackedUp'
                   /\ ~overlapped' => ~overlapped /\ contracts' \subseteq contracts \cup downloads'
<1>1. CASE connect
  BY <1>1 DEF connect
<1>2. ASSUME NEW longEnough \in BOOLEAN, prepare(longEnough) PROVE Goal
  BY <1>2 DEF prepare
<1>3. CASE prepareDeployed
  BY <1>3 DEF prepareDeployed
<1>4. CASE backupConfirmed
  BY <1>4 DEF backupConfirmed
<1>5. CASE deploy
  BY <1>5 DEF deploy
<1>6. CASE ClosePage
  BY <1>6 DEF ClosePage, NewPage
<1>7. ASSUME NEW s \in Secrets, downloadBackup(s) PROVE Goal
  BY <1>7 DEF downloadBackup
<1>8. ASSUME NEW s \in Secrets, downloadDeployed(s) PROVE Goal
  BY <1>8 DEF downloadDeployed
<1>9. ASSUME NEW s \in Secrets, EncryptionFails(s) PROVE Goal
  BY <1>9 DEF EncryptionFails
<1>10. ASSUME NEW s \in Secrets, Deployed(s) \/ NotDeployed(s) PROVE Goal
  BY <1>10 DEF Deployed, NotDeployed, Deploys
<1> QED
  BY <1>1, <1>2, <1>3, <1>4, <1>5, <1>6, <1>7, <1>8, <1>9, <1>10 DEF ConsoleNext

-----------------------------------------------------------------------------
(* All together. *)

IInv ==
  /\ program \in {"cli", "console", "limiter"}
  /\ CliInv /\ SeedKept /\ SecretKept
  /\ HandlersServed /\ RoutesTypeOK
  /\ ConsoleInv /\ BackedUp
  /\ LimiterInv

(* Initially the invariant holds. *)
LEMMA InitIInv == Init => IInv
<1> SUFFICES ASSUME Init PROVE IInv
  OBVIOUS
<1> USE SecretsAssumption, CliAssumption
<1> USE DEF Init, SecretsInit, CliInit, RoutesInit, ConsoleInit
<1>1. CliInv
  <2>1. Off \in Processes
    BY CliOff
  <2>2. NoVault \in Vaults(MaxSeeds) /\ NoVault \in Vaults(MaxSecrets)
    BY DEF Vaults, NoVault
  <2>3. SecretsTypeOK /\ CliTypeOK
    <3>1. 0 \in 0 .. MaxSecrets /\ 0 \in 0 .. MaxSeeds /\ 0 \in 0 .. MaxStarts
      OBVIOUS
    <3>2. cli \in Processes /\ walletVault \in Vaults(MaxSeeds) /\ adminVault \in Vaults(MaxSecrets)
      BY <2>1, <2>2
    <3>3. secretsMade \in 0 .. MaxSecrets /\ seedsMade \in 0 .. MaxSeeds /\ starts \in 0 .. MaxStarts
      BY <3>1
    <3> QED
      BY <3>2, <3>3 DEF SecretsTypeOK, CliTypeOK
  <2> QED
    BY <2>3 DEF CliInv, SeedRanges, SecretRanges, Off, NoVault, Locked, Registering
<1>2. SeedKept /\ SecretKept
  BY DEF SeedKept, SecretKept, Off, Opening, Locked
<1>3. HandlersServed
  BY DEF HandlersServed, At, NoRequest
<1>4. RoutesTypeOK
  BY NoAnswerTyped DEF RoutesTypeOK, NoRequest, Requests, Routes, Places
<1>5. ConsoleInv /\ BackedUp
  <2>1. NewPage \in Consoles
    BY DEF NewPage, Consoles
  <2>2. ConsoleTypeOK /\ secretsMade = 0
    BY <2>1 DEF ConsoleTypeOK
  <2> QED
    BY <2>2 DEF ConsoleInv, BackedUp, NewPage
<1> QED
  BY <1>1, <1>2, <1>3, <1>4, <1>5, InitLimiterInv DEF IInv

(* A process that serves goes on serving until the server is closed. *)
LEMMA ServingStays ==
  ASSUME CliInv, cli.stage \in {"serving", "closing"},
         CliStep \/ RegistrationDeadline \/ CliOperator
  PROVE  cli'.stage \in {"serving", "closing"}
<1>1. cli \in Processes
  BY DEF CliInv, CliTypeOK
<1>2. CASE CliStep
  BY <1>2
     DEF CliStep, Doctor, OpenWalletVault, SaveSeed, BuildWallet, UnshieldedSynced, DustSynced,
         Balances, NightReceived, RegistrationRetry, RegistrationBuilt, RegistrationAccepted,
         DustReceived, Throws, Ready, OpenAdminVault, SaveAdminSecrets, Providers,
         DeployContract, ApproveDestination, Serve, Finally, In, Waiting
<1>3. CASE RegistrationDeadline
  BY <1>3 DEF RegistrationDeadline
<1>4. CASE CliOperator
  BY <1>1, <1>4
     DEF CliOperator, Start, WalletUnlocked, WalletRefused, WalletPasswordsMissing, CreateSeed,
         FaucetConfirmed, AdminUnlocked, AdminPasswordsMissing, CreateAdminSecrets, Signal,
         WritePasswordFile, Fund, In, Goto, Processes
<1> QED
  BY <1>2, <1>3, <1>4

(* The server leaves the program's variables alone, but for the approval it
   asks for and its own end. *)
LEMMA ServerIsQuiet ==
  ASSUME RoutesStep
  PROVE  ServerClosed \/ (\E h \in Handlers : Approve(h)) \/ UNCHANGED cliVars
BY DEF RoutesStep, Admitted, Rejected, ContactFound, AskLedger, AlreadyApproved, Moderated,
       Sponsored

(* A handler that is not idle is served; only Arrive begins one. *)
LEMMA ServedStep ==
  ASSUME CliInv, HandlersServed, RoutesTypeOK,
         (RoutesStep \/ RoutesClients \/ ProcessCrash)
  PROVE  HandlersServed'
<1>1. CASE ServerClosed
  BY <1>1 DEF ServerClosed, HandlersServed, At, routesVars
<1>2. CASE ProcessCrash
  BY <1>2 DEF ProcessCrash, HandlersServed, At, NoRequest
<1>3. CASE RoutesStep /\ ~ServerClosed
  <2>1. UNCHANGED cli
    BY <1>3, ServerIsQuiet DEF Approve, cliVars
  <2>2. PICK h \in Handlers :
          /\ ~At(h, "idle")
          /\ \A g \in Handlers \ {h} : handler'[g] = handler[g]
    <3> USE DEF At, Advance, Reply, Answered, RoutesTypeOK
    <3>1. ASSUME NEW h \in Handlers,
                 \/ Admitted(h) \/ Rejected(h) \/ ContactFound(h) \/ AskLedger(h)
                 \/ Approve(h) \/ AlreadyApproved(h)
          PROVE  /\ ~At(h, "idle")
                 /\ \A g \in Handlers \ {h} : handler'[g] = handler[g]
      BY <3>1 DEF Admitted, Rejected, ContactFound, AskLedger, Approve, AlreadyApproved,
                  Qualifies
    <3>2. ASSUME NEW h \in Handlers, NEW text \in Texts, Moderated(h, text)
          PROVE  /\ ~At(h, "idle")
                 /\ \A g \in Handlers \ {h} : handler'[g] = handler[g]
      BY <3>2 DEF Moderated
    <3>3. ASSUME NEW h \in Handlers, NEW transaction \in Transactions, Sponsored(h, transaction)
          PROVE  /\ ~At(h, "idle")
                 /\ \A g \in Handlers \ {h} : handler'[g] = handler[g]
      BY <3>3 DEF Sponsored
    <3> QED
      BY <1>3, <3>1, <3>2, <3>3 DEF RoutesStep
  <2> QED
    BY <2>1, <2>2 DEF HandlersServed, At
<1>4. CASE RoutesClients
  BY <1>4 DEF RoutesClients, Arrive, HandlersServed, At, In, cliVars, RoutesTypeOK
<1> QED
  BY <1>1, <1>2, <1>3, <1>4

(* Every step, and every stutter, keeps the invariant. *)
LEMMA StepIInv == IInv /\ [Next]_vars => IInv'
<1> SUFFICES ASSUME IInv, [Next]_vars PROVE IInv'
  OBVIOUS
<1> USE DEF IInv
<1>1. CASE CliRuns \/ DeadlinePasses \/ OperatorActs
  <2>1. /\ OnlyCli /\ UNCHANGED routesVars
        /\ CliStep \/ RegistrationDeadline \/ CliOperator
    BY <1>1 DEF CliRuns, DeadlinePasses, OperatorActs
  <2>2. /\ UNCHANGED <<program, console, downloads, overlapped>>
        /\ UNCHANGED limiterVars
    BY <2>1 DEF OnlyCli
  <2>3. CliInv' /\ SeedKept' /\ SecretKept'
    BY <2>1, <2>2, CliTypes, SeedStep, SecretStep
  <2>4. HandlersServed'
    BY <2>1, ServingStays DEF HandlersServed, At, routesVars
  <2>5. RoutesTypeOK'
    BY <2>1, RoutesTypes
  <2>6. secretsMade' \in Nat /\ secretsMade <= secretsMade'
    BY <2>1, SecretsMadeGrow
  <2>7. ConsoleInv' /\ BackedUp'
    BY <2>2, <2>6 DEF ConsoleInv, ConsoleTypeOK, Consoles, BackedUp, CliInv, SecretsTypeOK
  <2> QED
    BY <2>2, <2>3, <2>4, <2>5, <2>7, StepKeepsInv
<1>2. CASE ServerRuns \/ ClientsAct \/ ProcessDies
  <2>1. /\ OnlyCli
        /\ RoutesStep \/ RoutesClients \/ ProcessCrash
    BY <1>2 DEF ServerRuns, ClientsAct, ProcessDies
  <2>2. /\ UNCHANGED <<program, console, downloads, overlapped>>
        /\ UNCHANGED limiterVars
    BY <2>1 DEF OnlyCli
  <2>3. RoutesClients => UNCHANGED cliVars
    BY DEF RoutesClients, Arrive
  <2>4. ServerClosed \/ ProcessCrash \/ (\E h \in Handlers : Approve(h)) \/ UNCHANGED cliVars
    BY <2>1, <2>3, ServerIsQuiet
  <2>5. CliInv' /\ SeedKept' /\ SecretKept'
    BY <2>2, <2>4, CliTypes, SeedStep, SecretStep
  <2>6. HandlersServed'
    BY <2>1, ServedStep
  <2>7. ServerClosed => UNCHANGED routesVars
    BY DEF ServerClosed
  <2>8. RoutesTypeOK'
    BY <2>1, <2>7, RoutesTypes
  <2>9. UNCHANGED secretsMade
    BY <2>4 DEF ServerClosed, ProcessCrash, Approve, cliVars, made
  <2>10. ConsoleInv' /\ BackedUp'
    BY <2>2, <2>9 DEF ConsoleInv, ConsoleTypeOK, BackedUp
  <2> QED
    BY <2>2, <2>5, <2>6, <2>8, <2>10, StepKeepsInv
<1>3. CASE ConsoleRuns
  <2>1. /\ ConsoleNext
        /\ UNCHANGED <<program, cli, files, printed, funded, registered, approved, starts,
                       seedsMade, misread>>
        /\ UNCHANGED routesVars /\ UNCHANGED limiterVars
    BY <1>3 DEF ConsoleRuns
  <2>2. /\ SecretsTypeOK' /\ ConsoleInv'
        /\ secretsMade' \in secretsMade .. MaxSecrets
        /\ contracts \subseteq contracts' /\ downloads \subseteq downloads'
    BY <2>1, ConsoleStep DEF CliInv
  <2>3. /\ BackedUp'
        /\ ~overlapped' => ~overlapped /\ contracts' \subseteq contracts \cup downloads'
    BY <2>1, BackupStep DEF CliInv
  <2>4. CliInv'
    <3>1. secretsMade \in 0 .. MaxSecrets /\ 1 .. secretsMade \subseteq 1 .. secretsMade'
      BY <2>2, SecretsAssumption DEF CliInv, SecretsTypeOK
    <3>2. CliTypeOK'
      BY <2>1, <2>2 DEF CliInv, CliTypeOK, files
    <3> QED
      BY <2>1, <2>2, <3>1, <3>2 DEF CliInv, SeedRanges, SecretRanges, files
  <2>5. SeedKept' /\ SecretKept'
    BY <2>1, <2>2, <2>3 DEF SeedKept, SecretKept, files
  <2>6. RoutesTypeOK'
    BY <2>1, RoutesTypes
  <2>7. HandlersServed'
    BY <2>1 DEF HandlersServed, At, routesVars
  <2> QED
    BY <2>1, <2>2, <2>3, <2>4, <2>5, <2>6, <2>7, StepKeepsInv
<1>4. CASE LimiterRuns
  <2>1. /\ LimiterNext
        /\ UNCHANGED <<program, console, downloads, overlapped>>
        /\ UNCHANGED cliVars /\ UNCHANGED routesVars
    BY <1>4 DEF LimiterRuns
  <2>2. LimiterInv'
    BY <2>1, StepKeepsInv
  <2>3. CliInv' /\ SeedKept' /\ SecretKept'
    BY <2>1, CliTypes, SeedStep, SecretStep
  <2>4. RoutesTypeOK'
    BY <2>1, RoutesTypes
  <2>5. HandlersServed' /\ ConsoleInv' /\ BackedUp'
    BY <2>1 DEF HandlersServed, At, routesVars, cliVars, made, ConsoleInv, ConsoleTypeOK,
                BackedUp
  <2> QED
    BY <2>1, <2>2, <2>3, <2>4, <2>5
<1>5. CASE UNCHANGED vars
  <2>1. /\ UNCHANGED <<program, console, downloads, overlapped>>
        /\ UNCHANGED cliVars /\ UNCHANGED routesVars /\ UNCHANGED limiterVars
    BY <1>5 DEF vars
  <2>2. LimiterInv'
    BY <2>1, StepKeepsInv
  <2>3. CliInv' /\ SeedKept' /\ SecretKept'
    BY <2>1, CliTypes, SeedStep, SecretStep
  <2>4. RoutesTypeOK'
    BY <2>1, RoutesTypes
  <2>5. HandlersServed' /\ ConsoleInv' /\ BackedUp'
    BY <2>1 DEF HandlersServed, At, routesVars, cliVars, made, ConsoleInv, ConsoleTypeOK,
                BackedUp
  <2> QED
    BY <2>1, <2>2, <2>3, <2>4, <2>5
<1> QED
  BY <1>1, <1>2, <1>3, <1>4, <1>5 DEF Next

(* So the invariant holds always. *)
LEMMA Invariance == Spec => []IInv
BY InitIInv, StepIInv, PTL DEF Spec

-----------------------------------------------------------------------------
(* The theorems. *)

(* The vaults, the server, the console and the limiter keep their types;
   among them: only generated seeds are printed, only deployed contracts have
   approved destinations. *)
THEOREM OperatorTypeCorrect == Spec => []TypeOK
<1>1. IInv => TypeOK
  BY DEF IInv, TypeOK, CliInv, ConsoleInv, LimiterInv
<1> QED
  BY <1>1, Invariance, PTL

(* However runs of the program and pages of the console are cut short, the
   seed behind a printed address and the secrets of a deployed contract are
   kept, but for the two ways in which the code lets go of them. *)
THEOREM KeysAreKept == Spec => []KeysSurvive
<1>1. IInv => KeysSurvive
  BY DEF IInv, KeysSurvive, SeedKept, SecretKept
<1> QED
  BY <1>1, Invariance, PTL

(* The limit also holds for the limiter as a part of the whole. *)
THEOREM LimitInOperation == Spec => []WindowLimit
<1>1. IInv => WindowLimit
  BY DEF IInv, LimiterInv
<1> QED
  BY <1>1, Invariance, PTL

(* What is approved stays approved. *)
LEMMA ApprovalsStay == [Next]_vars => approved \subseteq approved'
<1> USE DEF files, chain, made
<1>1. CliStep => approved \subseteq approved'
  BY DEF CliStep, Doctor, OpenWalletVault, SaveSeed, BuildWallet, UnshieldedSynced, DustSynced,
         Balances, NightReceived, RegistrationRetry, RegistrationBuilt, RegistrationAccepted,
         DustReceived, Throws, Ready, OpenAdminVault, SaveAdminSecrets, Providers,
         DeployContract, ApproveDestination, Serve, Finally
<1>2. RegistrationDeadline => approved' = approved
  BY DEF RegistrationDeadline
<1>3. CliOperator => approved' = approved
  BY DEF CliOperator, Start, WalletUnlocked, WalletRefused, WalletPasswordsMissing, CreateSeed,
         FaucetConfirmed, AdminUnlocked, AdminPasswordsMissing, CreateAdminSecrets,
         Signal, WritePasswordFile, Fund
<1>4. RoutesStep => approved \subseteq approved'
  BY ServerIsQuiet DEF ServerClosed, Approve, cliVars
<1>5. RoutesClients \/ ProcessCrash => approved' = approved
  BY DEF RoutesClients, Arrive, ProcessCrash, cliVars
<1>6. ConsoleRuns \/ LimiterRuns => approved' = approved
  BY DEF ConsoleRuns, LimiterRuns, cliVars
<1>7. UNCHANGED vars => approved' = approved
  BY DEF vars, cliVars
<1> QED
  BY <1>1, <1>2, <1>3, <1>4, <1>5, <1>6, <1>7
     DEF Next, CliRuns, ServerRuns, DeadlinePasses, OperatorActs, ClientsAct, ProcessDies

(* A transaction the sponsor pays for is one call of a report circuit. *)
LEMMA SponsoredCall ==
  ASSUME NEW transaction \in Transactions, assertSponsoredContractCall(transaction)
  PROVE  \E circuit \in {"submitInternal", "submitWhitehat"} :
           transaction = <<[address |-> "ours", entryPoint |-> circuit]>>
<1> DEFINE calls == {i \in 1 .. Len(transaction) : transaction[i].address # "none"}
<1>1. transaction \in Seq(Actions)
  BY RoutesAssumption
<1>2. /\ Len(transaction) = 1 /\ Cardinality(calls) = 1
      /\ \A i \in calls : /\ transaction[i].address = "ours"
                          /\ transaction[i].entryPoint \in {"submitInternal", "submitWhitehat"}
  BY DEF assertSponsoredContractCall
<1>3. calls # {}
  BY <1>2, FS_EmptySet
<1>4. 1 \in calls
  BY <1>2, <1>3
<1>5. transaction[1] \in Actions /\ transaction = <<transaction[1]>>
  <2>1. transaction[1] \in Actions
    BY <1>1, <1>2
  <2>2. /\ <<transaction[1]>> \in Seq(Actions) /\ Len(<<transaction[1]>>) = 1
        /\ <<transaction[1]>>[1] = transaction[1]
    BY <2>1
  <2>3. \A i \in 1 .. Len(transaction) : transaction[i] = <<transaction[1]>>[i]
    BY <1>2, <2>2
  <2> QED
    BY <1>1, <1>2, <2>1, <2>2, <2>3, SeqEqual
<1>6. transaction[1] = [address |-> "ours", entryPoint |-> transaction[1].entryPoint]
  BY <1>2, <1>4, <1>5 DEF Actions
<1> QED
  BY <1>2, <1>4, <1>5, <1>6

(* What is answered is true when it is answered, and stays so. *)
LEMMA AnswersStep == IInv /\ AnswersAreTrue /\ [Next]_vars => AnswersAreTrue'
<1> SUFFICES ASSUME IInv, AnswersAreTrue, [Next]_vars PROVE AnswersAreTrue'
  OBVIOUS
<1>1. approved \subseteq approved'
  BY ApprovalsStay
<1>2. answer' = answer => AnswersAreTrue'
  BY <1>1 DEF AnswersAreTrue
<1>3. answer' = NoAnswer => AnswersAreTrue'
  BY DEF AnswersAreTrue, NoAnswer
<1>4. ASSUME NEW h \in Handlers, Qualifies(h), cli.contract \in approved' PROVE AnswersAreTrue'
  BY <1>4 DEF AnswersAreTrue, Qualifies, Reply, NoAnswer
<1>5. ASSUME NEW h \in Handlers, NEW text \in Texts, Moderated(h, text) PROVE AnswersAreTrue'
  BY <1>5 DEF AnswersAreTrue, Moderated, moderateReport, Reply, NoAnswer
<1>6. ASSUME NEW h \in Handlers, NEW transaction \in Transactions, Sponsored(h, transaction)
      PROVE  AnswersAreTrue'
  BY <1>6, SponsoredCall DEF AnswersAreTrue, Sponsored, Reply, NoAnswer
<1>7. ASSUME NEW h \in Handlers,
             \/ AskLedger(h) \/ Approve(h) \/ AlreadyApproved(h)
      PROVE  AnswersAreTrue'
  <2>1. Answered(h) => answer' = NoAnswer
    BY DEF Answered, Reply
  <2>2. \A place : Advance(h, place) => answer' = NoAnswer
    BY DEF Advance
  <2> QED
    BY <1>1, <1>3, <1>4, <1>7, <2>1, <2>2 DEF AskLedger, Approve, AlreadyApproved
<1>8. ASSUME NEW h \in Handlers,
             \/ Admitted(h) \/ Rejected(h) \/ ContactFound(h)
      PROVE  AnswersAreTrue'
  BY <1>3, <1>8 DEF Admitted, Rejected, ContactFound, Answered, Advance, Reply
<1>9. CASE RoutesStep
  BY <1>2, <1>5, <1>6, <1>7, <1>8, <1>9 DEF RoutesStep, ServerClosed, routesVars
<1>10. CASE RoutesClients \/ ProcessCrash
  BY <1>3, <1>10 DEF RoutesClients, Arrive, ProcessCrash
<1>11. CASE UNCHANGED routesVars
  BY <1>2, <1>11 DEF routesVars
<1>12. ConsoleRuns \/ LimiterRuns \/ UNCHANGED vars => UNCHANGED routesVars
  BY DEF ConsoleRuns, LimiterRuns, vars
<1> QED
  BY <1>9, <1>10, <1>11, <1>12
     DEF Next, CliRuns, ServerRuns, DeadlinePasses, OperatorActs, ClientsAct, ProcessDies

(* The issuer claims nothing that is not so: a destination is approved when it
   answers "qualified", reported abuse is not rejected by the fallback rules,
   and the sponsor pays for calls of the report circuits only. *)
THEOREM AnswersHold == Spec => []AnswersAreTrue
<1>1. Init => AnswersAreTrue
  BY DEF Init, RoutesInit, AnswersAreTrue, NoAnswer
<1> QED
  BY <1>1, AnswersStep, Invariance, PTL DEF Spec

-----------------------------------------------------------------------------
(* The parts that are specified on their own. *)

(* What goes on around it never disturbs the limiter: the operator's side is
   the limiter of file-rate-limiter.ts as it was specified alone. *)
LEMMA OperatorContainsLimiter == Spec => LimiterSpec
<1>1. Init => LimiterInit
  BY DEF Init
<1>2. [Next]_vars => [LimiterNext]_limiterVars
  BY DEF Next, vars, CliRuns, ServerRuns, DeadlinePasses, OperatorActs, ClientsAct, ProcessDies,
         ConsoleRuns, LimiterRuns, OnlyCli
<1> QED
  BY <1>1, <1>2, PTL DEF Spec, LimiterSpec

(* So the limiter is exact in operation too: it refuses only a key that has
   had its maxEvents. *)
THEOREM ExactInOperation == Spec => []CountIsExact /\ RefusedOnlyAtLimit
BY OperatorContainsLimiter, LimiterCountsExactly, NeverUnderTheLimit

=============================================================================
