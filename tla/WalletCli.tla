------------------------------ MODULE WalletCli ------------------------------
(***************************************************************************)
(* The operator's command line program (bootstrap.ts, cli.ts, vault.ts,    *)
(* deploy.ts): one process at a time.  It unlocks or creates the wallet    *)
(* vault, brings the wallet up to a spendable DUST balance, registering    *)
(* tNIGHT on the way, and then does what its mode says: nothing more,      *)
(* deploy, one administrator operation, or serve as the issuer.            *)
(*                                                                         *)
(* The vaults and the one-time password file survive the process.  Every   *)
(* wait and every call may fail; what is awaited in main's try block then  *)
(* goes to its finally.  Nothing makes a call end: only some waits have a  *)
(* timer in the code.  The persistent password store of Windows is left    *)
(* out: it only answers a prompt.                                          *)
(***************************************************************************)
EXTENDS AdminSecrets

CONSTANTS
  MaxSeeds,     \* bound: wallet seeds generated
  MaxStarts     \* bound: how often the program is started

ASSUME CliAssumption == MaxSeeds \in Nat /\ MaxStarts \in Nat

VARIABLES
  cli,          \* the process
  walletVault, adminVault,
  passwordFile, \* the one-time password file is there
  starts, seedsMade,
  printed,      \* seeds whose address the operator has seen
  funded,       \* seeds whose address got tNIGHT
  registered,   \* seeds whose tNIGHT is registered for DUST generation
  approved,     \* contracts in which the operator approved a destination
  misread       \* history: a missing password file was taken for a missing vault

files == <<walletVault, adminVault, passwordFile>>
chain == <<printed, funded, registered, approved, contracts>>
made == <<starts, seedsMade, secretsMade>>
cliVars == <<cli, files, chain, made, misread>>

Modes == {"doctor", "setup", "deploy", "issuer", "approve"}

Asking == {"newSeed", "walletPassword", "faucet", "newAdmin", "adminPassword"}
Waiting == {"unshieldedSync", "dustSync", "nightBalance", "register", "retryLater",
            "submit", "dustBalance", "openAdmin", "providers", "call"}
Stages == {"off", "doctor", "openSeed", "saveSeed", "buildWallet", "balances", "ready",
           "saveAdmin", "serving", "closing", "finally"} \cup Asking \cup Waiting

(* A vault is written in place: torn until all of it is on disk. *)
Vaults(max) == [file : {"absent", "torn", "whole"}, holds : 0 .. max]
NoVault == [file |-> "absent", holds |-> 0]

(* passwords is the memo of getSessionPasswords; late, that the deadline of
   the registration has passed. *)
Processes == [stage : Stages, mode : Modes, withFile : BOOLEAN,
              passwords : {"unread", "read", "missing"},
              seed : 0 .. MaxSeeds, secret : 0 .. MaxSecrets, contract : 0 .. MaxSecrets,
              late : BOOLEAN]
Off == [stage |-> "off", mode |-> "setup", withFile |-> FALSE, passwords |-> "unread",
        seed |-> 0, secret |-> 0, contract |-> 0, late |-> FALSE]

CliTypeOK ==
  /\ cli \in Processes
  /\ walletVault \in Vaults(MaxSeeds)
  /\ adminVault \in Vaults(MaxSecrets)
  /\ passwordFile \in BOOLEAN
  /\ starts \in 0 .. MaxStarts
  /\ seedsMade \in 0 .. MaxSeeds
  /\ printed \subseteq 1 .. seedsMade
  /\ funded \subseteq printed
  /\ registered \subseteq funded
  /\ approved \subseteq contracts
  /\ misread \in BOOLEAN

CliInit ==
  /\ cli = Off
  /\ walletVault = NoVault
  /\ adminVault = NoVault
  /\ passwordFile \in BOOLEAN
  /\ starts = 0 /\ seedsMade = 0
  /\ printed = {} /\ funded = {} /\ registered = {} /\ approved = {}
  /\ misread = FALSE

In(stage) == cli.stage = stage
Goto(stage) == cli' = [cli EXCEPT !.stage = stage]

-----------------------------------------------------------------------------
(* Starting. *)

Start(mode, withFile) ==
  /\ In("off")
  /\ starts < MaxStarts
  /\ starts' = starts + 1
  /\ cli' = [Off EXCEPT !.mode = mode, !.withFile = withFile,
                        !.stage = IF mode = "doctor" THEN "doctor" ELSE "openSeed"]
  /\ UNCHANGED <<files, chain, seedsMade, secretsMade, misread>>

(* --doctor asks the proof server and the node for a sign of life. *)
Doctor ==
  /\ In("doctor")
  /\ cli' = Off
  /\ UNCHANGED <<files, chain, made, misread>>

(* loadSessionPasswords: the file is read once per process and removed; if it
   is not there, the error of readFile is kept and thrown again. *)
ReadPasswords ==
  /\ passwordFile' = FALSE
  /\ cli.passwords = "read" \/ (cli.passwords = "unread" /\ passwordFile)
PasswordsMissing ==
  /\ cli.withFile
  /\ cli.passwords = "missing" \/ (cli.passwords = "unread" /\ ~passwordFile)

-----------------------------------------------------------------------------
(* The wallet vault: readOrCreateSeed. *)

(* A torn vault is no JSON: the program ends. *)
OpenWalletVault ==
  /\ In("openSeed")
  /\ cli' = CASE walletVault.file = "absent" -> [cli EXCEPT !.stage = "newSeed"]
              [] walletVault.file = "whole" -> [cli EXCEPT !.stage = "walletPassword"]
              [] walletVault.file = "torn" -> Off
  /\ UNCHANGED <<files, chain, made, misread>>

(* The password decrypts the vault: that of the file, or one of three typed. *)
WalletUnlocked ==
  /\ In("walletPassword")
  /\ cli' = [cli EXCEPT !.stage = "buildWallet", !.seed = walletVault.holds,
                        !.passwords = IF cli.withFile THEN "read" ELSE @]
  /\ IF cli.withFile THEN ReadPasswords ELSE UNCHANGED passwordFile
  /\ UNCHANGED <<walletVault, adminVault, chain, made, misread>>

WalletRefused ==
  /\ In("walletPassword")
  /\ cli' = Off
  /\ IF cli.withFile THEN ReadPasswords ELSE UNCHANGED passwordFile
  /\ UNCHANGED <<walletVault, adminVault, chain, made, misread>>

(* The missing password file is ENOENT like a missing vault, and is taken for
   one: a new seed is about to replace the vault. *)
WalletPasswordsMissing ==
  /\ In("walletPassword")
  /\ PasswordsMissing
  /\ cli' = [cli EXCEPT !.stage = "newSeed", !.passwords = "missing"]
  /\ misread' = TRUE
  /\ UNCHANGED <<files, chain, made>>

(* The operator types a new password; with less than 12 characters the
   program ends, and so does it if the write fails. *)
CreateSeed ==
  /\ In("newSeed")
  /\ \/ /\ seedsMade < MaxSeeds
        /\ seedsMade' = seedsMade + 1
        /\ cli' = [cli EXCEPT !.stage = "saveSeed", !.seed = seedsMade']
        /\ walletVault' = [file |-> "torn", holds |-> 0]
     \/ cli' = Off /\ UNCHANGED <<seedsMade, walletVault>>
  /\ UNCHANGED <<adminVault, passwordFile, chain, starts, secretsMade, misread>>

SaveSeed ==
  /\ In("saveSeed")
  /\ \/ /\ walletVault' = [file |-> "whole", holds |-> cli.seed]
        /\ Goto("buildWallet")
     \/ cli' = Off /\ UNCHANGED walletVault
  /\ UNCHANGED <<adminVault, passwordFile, chain, made, misread>>

-----------------------------------------------------------------------------
(* The wallet. *)

(* WalletFacade.init and start fail before the try block, or the addresses
   are printed and the synchronisation begins. *)
BuildWallet ==
  /\ In("buildWallet")
  /\ \/ cli' = Off /\ UNCHANGED printed
     \/ Goto("unshieldedSync") /\ printed' = printed \cup {cli.seed}
  /\ UNCHANGED <<files, funded, registered, approved, contracts, made, misread>>

(* The tip of the indexer is reached: strictly, for tNIGHT and then DUST. *)
UnshieldedSynced ==
  /\ In("unshieldedSync")
  /\ Goto("dustSync")
  /\ UNCHANGED <<files, chain, made, misread>>
DustSynced ==
  /\ In("dustSync")
  /\ Goto("balances")
  /\ UNCHANGED <<files, chain, made, misread>>

Night == cli.seed \in funded
Unregistered == cli.seed \notin registered

\* Mutant of Balances: the wallet goes on without tNIGHT.
BalancesUnfunded ==
  /\ In("balances")
  /\ Goto(IF Unregistered THEN "register" ELSE "dustBalance")
  /\ UNCHANGED <<files, chain, made, misread>>

(* No tNIGHT: ask for it, or give up if the network is the local one.  With
   DUST, go on; else register whatever tNIGHT is not registered yet. *)
Balances ==
  /\ In("balances")
  /\ \/ ~Night /\ (Goto("faucet") \/ Goto("finally"))
     \/ Night /\ ~Unregistered /\ Goto("ready")
     \/ Night /\ Goto(IF Unregistered THEN "register" ELSE "dustBalance")
  /\ UNCHANGED <<files, chain, made, misread>>

(* The operator presses Enter; the transfer may not be there yet. *)
FaucetConfirmed ==
  /\ In("faucet")
  /\ Goto("nightBalance")
  /\ UNCHANGED <<files, chain, made, misread>>
NightReceived ==
  /\ In("nightBalance")
  /\ Night
  /\ Goto(IF Unregistered THEN "register" ELSE "dustBalance")
  /\ UNCHANGED <<files, chain, made, misread>>

(* The loop that builds the registration: a call into the wallet; after a fee
   shortfall or a transient error a wait with a timer; and then another try
   if the deadline has not passed, which the call does not look at. *)
\* Mutant of RegistrationRetry: the loop does not look at its deadline.
RegistrationRetryForever ==
  /\ \/ In("register") /\ Goto("retryLater")
     \/ In("retryLater") /\ Goto("register")
  /\ UNCHANGED <<files, chain, made, misread>>

RegistrationRetry ==
  /\ \/ In("register") /\ Goto("retryLater")
     \/ In("retryLater") /\ Goto(IF cli.late THEN "finally" ELSE "register")
  /\ UNCHANGED <<files, chain, made, misread>>

(* A transaction that was built is submitted, once. *)
RegistrationBuilt ==
  /\ In("register")
  /\ Goto("submit")
  /\ UNCHANGED <<files, chain, made, misread>>

RegistrationDeadline ==
  /\ cli.stage \in {"register", "retryLater"}
  /\ ~cli.late
  /\ cli' = [cli EXCEPT !.late = TRUE]
  /\ UNCHANGED <<files, chain, made, misread>>

(* submitWithRpcRecovery tells success of a transaction that is on the chain;
   when it throws, the transaction may be there or not. *)
RegistrationAccepted ==
  /\ In("submit")
  /\ registered' = registered \cup {cli.seed}
  /\ cli' \in {[cli EXCEPT !.stage = "dustBalance"], [cli EXCEPT !.stage = "finally"]}
  /\ UNCHANGED <<files, printed, funded, approved, contracts, made, misread>>

DustReceived ==
  /\ In("dustBalance")
  /\ ~Unregistered
  /\ Goto("ready")
  /\ UNCHANGED <<files, chain, made, misread>>

(* A wait is over without what it waited for, or a call throws. *)
Throws ==
  /\ cli.stage \in Waiting
  /\ Goto("finally")
  /\ UNCHANGED <<files, chain, made, misread>>

-----------------------------------------------------------------------------
(* The mode, and the vault of the role secrets: loadOrCreateVault.  An
   operation other than --deploy throws without a contract address. *)

Ready ==
  /\ In("ready")
  /\ \/ cli.mode # "setup" /\ Goto("openAdmin")
     \/ cli.mode # "deploy" /\ Goto("finally")
  /\ UNCHANGED <<files, chain, made, misread>>

(* Only --deploy may create the vault. *)
AdminVaultMissing == IF cli.mode = "deploy" THEN "newAdmin" ELSE "finally"

OpenAdminVault ==
  /\ In("openAdmin")
  /\ Goto(CASE adminVault.file = "absent" -> AdminVaultMissing
            [] adminVault.file = "whole" -> "adminPassword"
            [] adminVault.file = "torn" -> "finally")
  /\ UNCHANGED <<files, chain, made, misread>>

AdminUnlocked ==
  /\ In("adminPassword")
  /\ cli' \in {[cli EXCEPT !.stage = "providers", !.secret = adminVault.holds],
               [cli EXCEPT !.stage = "finally"]}
  /\ IF cli.withFile THEN ReadPasswords ELSE UNCHANGED passwordFile
  /\ UNCHANGED <<walletVault, adminVault, chain, made, misread>>

AdminPasswordsMissing ==
  /\ In("adminPassword")
  /\ PasswordsMissing
  /\ Goto(AdminVaultMissing)
  /\ misread' = TRUE
  /\ UNCHANGED <<files, chain, made>>

CreateAdminSecrets ==
  /\ In("newAdmin")
  /\ \/ /\ NewSecrets
        /\ cli' = [cli EXCEPT !.stage = "saveAdmin", !.secret = secretsMade']
        /\ adminVault' = [file |-> "torn", holds |-> 0]
     \/ Goto("finally") /\ UNCHANGED <<secretsMade, adminVault>>
  /\ UNCHANGED <<walletVault, passwordFile, chain, starts, seedsMade, misread>>

\* Mutant of SaveAdminSecrets: the program goes on while the vault is written.
SaveAdminSecretsLate ==
  /\ In("saveAdmin")
  /\ \/ adminVault' = [file |-> "whole", holds |-> cli.secret]
     \/ UNCHANGED adminVault
  /\ Goto("providers")
  /\ UNCHANGED <<walletVault, passwordFile, chain, made, misread>>

SaveAdminSecrets ==
  /\ In("saveAdmin")
  /\ \/ /\ adminVault' = [file |-> "whole", holds |-> cli.secret]
        /\ Goto("providers")
     \/ Goto("finally") /\ UNCHANGED adminVault
  /\ UNCHANGED <<walletVault, passwordFile, chain, made, misread>>

(* createCliProviders: one spendable DUST coin is there. *)
Providers ==
  /\ In("providers")
  /\ Goto("call")
  /\ UNCHANGED <<files, chain, made, misread>>

(* The ledger takes the contract; the answer may be lost. *)
DeployContract ==
  /\ In("call") /\ cli.mode = "deploy"
  /\ Deploys(cli.secret)
  /\ Goto("finally")
  /\ UNCHANGED <<files, printed, funded, registered, approved, made, misread>>

(* The contract of --contract takes the approval if it was deployed with the
   pair of this vault: it asserts the role secret. *)
ApproveDestination ==
  /\ In("call") /\ cli.mode = "approve"
  /\ cli.secret \in contracts
  /\ approved' = approved \cup {cli.secret}
  /\ Goto("finally")
  /\ UNCHANGED <<files, printed, funded, registered, contracts, made, misread>>

(* The issuer joins the contract of --contract, whosever it is, configures
   its services and listens. *)
Serve ==
  /\ In("call") /\ cli.mode = "issuer"
  /\ \E c \in contracts : cli' = [cli EXCEPT !.stage = "serving", !.contract = c]
  /\ UNCHANGED <<files, chain, made, misread>>

(* SIGINT or SIGTERM: no more requests are taken. *)
Signal ==
  /\ In("serving")
  /\ Goto("closing")
  /\ UNCHANGED <<files, chain, made, misread>>

Finally ==
  /\ In("finally")
  /\ cli' = Off
  /\ UNCHANGED <<files, chain, made, misread>>

-----------------------------------------------------------------------------
(* Around the process. *)

(* Someone sends tNIGHT to an address the program has printed. *)
Fund(s) ==
  /\ s \in printed \ funded
  /\ funded' = funded \cup {s}
  /\ UNCHANGED <<cli, files, printed, registered, approved, contracts, made, misread>>

(* The operator writes the passwords down for the next run. *)
WritePasswordFile ==
  /\ In("off")
  /\ ~passwordFile
  /\ passwordFile' = TRUE
  /\ UNCHANGED <<cli, walletVault, adminVault, chain, made, misread>>

CliStep ==
  \/ Doctor \/ OpenWalletVault \/ SaveSeed \/ BuildWallet
  \/ UnshieldedSynced \/ DustSynced \/ Balances \/ NightReceived
  \/ RegistrationRetry \/ RegistrationBuilt \/ RegistrationAccepted
  \/ DustReceived \/ Throws \/ Ready \/ OpenAdminVault \/ SaveAdminSecrets
  \/ Providers \/ DeployContract \/ ApproveDestination \/ Serve \/ Finally

CliOperator ==
  \/ \E mode \in Modes, withFile \in BOOLEAN : Start(mode, withFile)
  \/ WalletUnlocked \/ WalletRefused \/ WalletPasswordsMissing \/ CreateSeed
  \/ FaucetConfirmed \/ AdminUnlocked \/ AdminPasswordsMissing \/ CreateAdminSecrets
  \/ Signal \/ WritePasswordFile \/ \E s \in 1 .. MaxSeeds : Fund(s)

=============================================================================
