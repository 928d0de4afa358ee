---------------------------- MODULE AdminConsole ----------------------------
(***************************************************************************)
(* The administrator console (midnight-admin/src/main.ts, backup.ts): one  *)
(* page with three buttons, a passphrase and a check box, whose handlers   *)
(* wait for the wallet and for the encryption of the backup while the      *)
(* buttons stay as they are.  link.click() starts a download; whether the  *)
(* file is kept the page cannot know, and the check box asks the operator. *)
(***************************************************************************)
EXTENDS AdminSecrets

VARIABLES
  console,      \* the variables of the page and which controls are enabled
  downloads,    \* pairs in a backup file that the browser was given to save
  overlapped    \* history: "prepare" was pressed while a backup was encrypted

consoleVars == <<console, downloads, overlapped, secretsMade, contracts>>

Secrets == 1 .. MaxSecrets

(* secret is that of issuerSecret, oracleSecret and backup, 0 if undefined;
   encrypting, rebinding and deploying are the handlers that wait. *)
Consoles == [connected : BOOLEAN, secret : 0 .. MaxSecrets, deployed : BOOLEAN,
             prepareOn : BOOLEAN, confirmOn : BOOLEAN, confirmed : BOOLEAN,
             deployOn : BOOLEAN, encrypting : SUBSET Secrets, rebinding : SUBSET Secrets,
             deploying : SUBSET Secrets]

NewPage ==
  [connected |-> FALSE, secret |-> 0, deployed |-> FALSE, prepareOn |-> FALSE,
   confirmOn |-> FALSE, confirmed |-> FALSE, deployOn |-> FALSE,
   encrypting |-> {}, rebinding |-> {}, deploying |-> {}]

ConsoleTypeOK ==
  /\ console \in Consoles
  /\ downloads \subseteq Secrets
  /\ overlapped \in BOOLEAN

ConsoleInit ==
  /\ console = NewPage
  /\ downloads = {}
  /\ overlapped = FALSE

-----------------------------------------------------------------------------

(* Lace grants the connection; the button stays enabled until it does. *)
connect ==
  /\ ~console.connected
  /\ console' = [console EXCEPT !.connected = TRUE, !.prepareOn = TRUE]
  /\ UNCHANGED <<downloads, overlapped, secretsMade, contracts>>

(* A new pair replaces the one in memory before the passphrase is looked at:
   with less than 12 characters nothing more happens. *)
prepare(longEnough) ==
  /\ console.prepareOn /\ ~console.deployed
  /\ NewSecrets
  /\ console' = [console EXCEPT
       !.secret = secretsMade',
       !.encrypting = IF longEnough THEN @ \cup {secretsMade'} ELSE @]
  /\ overlapped' = (overlapped \/ console.encrypting # {})
  /\ UNCHANGED <<downloads, contracts>>

(* After the deployment the same button downloads the backup of the pair in
   memory again, now with the address. *)
prepareDeployed ==
  /\ console.prepareOn /\ console.deployed
  /\ console' = [console EXCEPT !.rebinding = @ \cup {console.secret}]
  /\ UNCHANGED <<downloads, overlapped, secretsMade, contracts>>

downloadBackup(s) ==
  /\ s \in console.encrypting
  /\ downloads' = downloads \cup {s}
  /\ console' = [console EXCEPT !.encrypting = @ \ {s}, !.prepareOn = FALSE, !.confirmOn = TRUE]
  /\ UNCHANGED <<overlapped, secretsMade, contracts>>

downloadDeployed(s) ==
  /\ s \in console.rebinding
  /\ downloads' = downloads \cup {s}
  /\ console' = [console EXCEPT !.rebinding = @ \ {s}]
  /\ UNCHANGED <<overlapped, secretsMade, contracts>>

(* crypto.subtle throws: only the status line changes. *)
EncryptionFails(s) ==
  /\ \/ /\ s \in console.encrypting
        /\ console' = [console EXCEPT !.encrypting = @ \ {s}]
     \/ /\ s \in console.rebinding
        /\ console' = [console EXCEPT !.rebinding = @ \ {s}]
  /\ UNCHANGED <<downloads, overlapped, secretsMade, contracts>>

(* The check box, also while a deployment is running. *)
backupConfirmed ==
  /\ console.confirmOn
  /\ console' = [console EXCEPT
       !.confirmed = ~@,
       !.deployOn = ~console.confirmed /\ console.connected /\ console.secret # 0]
  /\ UNCHANGED <<downloads, overlapped, secretsMade, contracts>>

deploy ==
  /\ console.deployOn
  /\ console' = [console EXCEPT !.deployOn = FALSE, !.deploying = @ \cup {console.secret}]
  /\ UNCHANGED <<downloads, overlapped, secretsMade, contracts>>

Deployed(s) ==
  /\ s \in console.deploying
  /\ Deploys(s)
  /\ console' = [console EXCEPT !.deploying = @ \ {s}, !.deployed = TRUE, !.prepareOn = TRUE]
  /\ UNCHANGED <<downloads, overlapped, secretsMade>>

(* The proof or the wallet fails, or the answer to an accepted deployment is
   lost: the button stays disabled until the check box is used again. *)
NotDeployed(s) ==
  /\ s \in console.deploying
  /\ Deploys(s) \/ UNCHANGED contracts
  /\ console' = [console EXCEPT !.deploying = @ \ {s}]
  /\ UNCHANGED <<downloads, overlapped, secretsMade>>

(* The page is closed or reloaded: what is in memory is gone. *)
ClosePage ==
  /\ console # NewPage
  /\ console' = NewPage
  /\ UNCHANGED <<downloads, overlapped, secretsMade, contracts>>

ConsoleNext ==
  \/ connect
  \/ \E longEnough \in BOOLEAN : prepare(longEnough)
  \/ prepareDeployed \/ backupConfirmed \/ deploy \/ ClosePage
  \/ \E s \in Secrets :
       \/ downloadBackup(s) \/ downloadDeployed(s) \/ EncryptionFails(s)
       \/ Deployed(s) \/ NotDeployed(s)

ConsoleSpec == SecretsInit /\ ConsoleInit /\ [][ConsoleNext]_consoleVars

=============================================================================
