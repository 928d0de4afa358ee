------------------------------ MODULE Operator ------------------------------
(***************************************************************************)
(* The operator's side: the command line program with the issuer it serves *)
(* (IssuerRoutes over WalletCli), the administrator console, and the rate  *)
(* limiter of the issuer's routes.                                         *)
(*                                                                         *)
(* The program and the console share nothing but the way they deploy, and  *)
(* an operator deploys with the one or the other; the limiter is explored  *)
(* apart from the routes, which take any answer from it.  So a behaviour   *)
(* is of one of the three: "program" says which.                           *)
(***************************************************************************)
EXTENDS IssuerRoutes, AdminConsole, SlidingWindow

VARIABLE program

vars == <<program, cliVars, routesVars, console, downloads, overlapped, limiterVars>>

TypeOK ==
  /\ program \in {"cli", "console", "limiter"}
  /\ SecretsTypeOK
  /\ CliTypeOK
  /\ RoutesTypeOK
  /\ ConsoleTypeOK
  /\ LimiterTypeOK

Init ==
  /\ program \in {"cli", "console", "limiter"}
  /\ SecretsInit
  /\ CliInit
  /\ RoutesInit
  /\ ConsoleInit
  /\ LimiterInit
  /\ program # "cli" => passwordFile

OnlyCli == program = "cli" /\ UNCHANGED <<program, console, downloads, overlapped, limiterVars>>

CliRuns == OnlyCli /\ CliStep /\ UNCHANGED routesVars
ServerRuns == OnlyCli /\ RoutesStep
DeadlinePasses == OnlyCli /\ RegistrationDeadline /\ UNCHANGED routesVars
OperatorActs == OnlyCli /\ CliOperator /\ UNCHANGED routesVars
ClientsAct == OnlyCli /\ RoutesClients
ProcessDies == OnlyCli /\ ProcessCrash

ConsoleRuns ==
  /\ program = "console"
  /\ ConsoleNext
  /\ UNCHANGED <<program, cli, files, printed, funded, registered, approved, starts, seedsMade,
                 misread, routesVars, limiterVars>>

LimiterRuns ==
  /\ program = "limiter"
  /\ LimiterNext
  /\ UNCHANGED <<program, cliVars, routesVars, console, downloads, overlapped>>

Next ==
  \/ CliRuns \/ ServerRuns \/ DeadlinePasses \/ OperatorActs \/ ClientsAct \/ ProcessDies
  \/ ConsoleRuns \/ LimiterRuns

(* Only the timers of the registration loop are taken to fire: that of its
   deadline, and that of the wait between two tries.  No call of the program
   need come back, and nobody else need ever act. *)
WaitEnds == In("retryLater") /\ CliRuns
Fairness == WF_vars(DeadlinePasses) /\ WF_vars(WaitEnds)

Spec == Init /\ [][Next]_vars /\ Fairness

-----------------------------------------------------------------------------
(* Properties. *)

(* What cannot be made again is kept: the seed behind an address that was
   printed for the faucet is in the wallet vault, the role secrets of a
   deployed contract are in the admin vault or in a backup that the browser
   was given to save.  It fails only if a missing password file was taken for
   a missing vault (vault.ts:230), or a backup was prepared while another was
   being encrypted (main.ts:54): then the pair that is deployed need not be
   the one that was downloaded. *)
KeysSurvive ==
  ~misread /\ ~overlapped =>
    /\ \A s \in printed : walletVault = [file |-> "whole", holds |-> s]
    /\ \A c \in contracts :
         c \in downloads \/ adminVault = [file |-> "whole", holds |-> c]

(* The registration of tNIGHT is not tried for ever, whatever the wallet and
   the network do: the program leaves the loop, or a single call in it never
   comes back (cli.ts:441 sets no timer for it). *)
RegistrationEnds ==
  \/ []<>(cli.stage \notin {"register", "retryLater"})
  \/ <>[](cli.stage = "register")

(* What the issuer answered is so: a qualified destination is approved in the
   contract the issuer serves; a report the fallback rejected does not tell of
   abuse the reporter suffered; what the sponsor paid for is one call of a
   report circuit of its contract. *)
AnswersAreTrue ==
  /\ answer.qualified \subseteq approved
  /\ \A text \in answer.rejected : "reportedAbuse" \notin text
  /\ \A transaction \in answer.paid :
       \E circuit \in {"submitInternal", "submitWhitehat"} :
         transaction = <<[address |-> "ours", entryPoint |-> circuit]>>

=============================================================================
