----------------------------- MODULE IssuerRoutes -----------------------------
(***************************************************************************)
(* The issuer server while the operator's program serves: the routes of    *)
(* issuer-server.ts that are not modelled on their own.  A destination is  *)
(* qualified (security.txt or the operator's directory) and approved on    *)
(* the ledger; a report is moderated; a reporter's transaction is paid     *)
(* for.  (Reports are delivered in ReportDelivery, credentials issued in   *)
(* OtpIssuance.)                                                           *)
(*                                                                         *)
(* Requests overlap, and the rate limiter (SlidingWindow) may refuse any   *)
(* of them.  There is one destination and one kind of client.              *)
(***************************************************************************)
EXTENDS WalletCli, Sequences

CONSTANTS
  Handlers,     \* requests that may be served at once
  Texts,        \* reports to moderate: what the patterns find in them
  Transactions  \* what reporters ask the sponsor to pay for: their actions

Patterns == {"reportedAbuse", "activeThreat", "obviousAbuseOnly", "obviousSpam", "long"}
Actions == [address : {"ours", "other", "none"},
            entryPoint : {"submitInternal", "submitWhitehat", "admin"}]

ASSUME RoutesAssumption ==
  /\ Texts \subseteq SUBSET Patterns
  /\ Transactions \subseteq Seq(Actions)

VARIABLES
  handler,      \* where each request is
  answer        \* what the last step of the server answered, if it was a claim

routesVars == <<handler, answer>>

Routes == {"whitehat", "public", "moderate", "sponsor"}
Places == {"idle", "limit", "contact", "ledger", "approve", "classify", "pay"}
Requests == [route : Routes, at : Places]
NoRequest == [route |-> "moderate", at |-> "idle"]

Answers == [qualified : SUBSET (1 .. MaxSecrets), rejected : SUBSET Texts,
            paid : SUBSET Transactions]
NoAnswer == [qualified |-> {}, rejected |-> {}, paid |-> {}]

RoutesTypeOK ==
  /\ handler \in [Handlers -> Requests]
  /\ answer \in Answers

RoutesInit ==
  /\ handler = [h \in Handlers |-> NoRequest]
  /\ answer = NoAnswer

At(h, place) == handler[h].at = place
Advance(h, place) ==
  /\ handler' = [handler EXCEPT ![h].at = place]
  /\ answer' = NoAnswer
Reply(h, a) ==
  /\ handler' = [handler EXCEPT ![h] = NoRequest]
  /\ answer' = a
Answered(h) == Reply(h, NoAnswer)

-----------------------------------------------------------------------------

Arrive(h, route) ==
  /\ In("serving")
  /\ At(h, "idle")
  /\ handler' = [handler EXCEPT ![h] = [route |-> route, at |-> "limit"]]
  /\ answer' = NoAnswer
  /\ UNCHANGED cliVars

(* Granted by the limiter, and the body can be read. *)
Admitted(h) ==
  /\ At(h, "limit")
  /\ Advance(h, CASE handler[h].route = "whitehat" -> "contact"
                  [] handler[h].route = "public" -> "ledger"
                  [] handler[h].route = "moderate" -> "classify"
                  [] handler[h].route = "sponsor" -> "pay")
  /\ UNCHANGED cliVars

(* An error answer: too many requests, a bad body, an unknown destination, no
   acceptable security.txt, a call that fails. *)
Rejected(h) ==
  /\ ~At(h, "idle")
  /\ Answered(h)
  /\ UNCHANGED cliVars

-----------------------------------------------------------------------------
(* Qualification. *)

(* A public address, a 2xx answer of bounded size, a mailto: contact of the
   domain that has not expired. *)
ContactFound(h) ==
  /\ At(h, "contact")
  /\ Advance(h, "ledger")
  /\ UNCHANGED cliVars

Qualifies(h) == Reply(h, [NoAnswer EXCEPT !.qualified = {cli.contract}])

(* client.ts approveSecurityDestination looks at the ledger first ... *)
AskLedger(h) ==
  /\ At(h, "ledger")
  /\ IF cli.contract \in approved
       THEN Qualifies(h)
       ELSE Advance(h, "approve")
  /\ UNCHANGED cliVars

(* ... and then calls the circuit, which asserts the role secret.  The answer
   may be lost. *)
Approve(h) ==
  /\ At(h, "approve")
  /\ cli.secret = cli.contract
  /\ cli.contract \notin approved
  /\ approved' = approved \cup {cli.contract}
  /\ Qualifies(h) \/ Answered(h)
  /\ UNCHANGED <<cli, files, printed, funded, registered, contracts, made, misread>>

(* Another request was faster: its error is success. *)
\* Mutant of AlreadyApproved: every error of the call is taken for that one.
AlreadyApprovedAnyError(h) ==
  /\ At(h, "approve")
  /\ Qualifies(h)
  /\ UNCHANGED cliVars

AlreadyApproved(h) ==
  /\ At(h, "approve")
  /\ cli.contract \in approved
  /\ Qualifies(h)
  /\ UNCHANGED cliVars

-----------------------------------------------------------------------------
(* Moderation. *)

(* Reported abuse passes, whatever else is in the text. *)
moderateReport(text) ==
  IF "reportedAbuse" \in text THEN "PASS"
  ELSE IF \/ "activeThreat" \in text
          \/ "obviousAbuseOnly" \in text /\ "long" \notin text
          \/ "obviousSpam" \in text
    THEN "REJECT" ELSE "PASS"

(* Without Gemini, or when it fails. *)
Moderated(h, text) ==
  /\ At(h, "classify")
  /\ Reply(h, IF moderateReport(text) = "REJECT" THEN [NoAnswer EXCEPT !.rejected = {text}]
                                                 ELSE NoAnswer)
  /\ UNCHANGED cliVars

-----------------------------------------------------------------------------
(* The DUST sponsor. *)

(* An action with an address is a contract call. *)
assertSponsoredContractCall(transaction) ==
  LET calls == {i \in 1 .. Len(transaction) : transaction[i].address # "none"} IN
    /\ Len(transaction) = 1 /\ Cardinality(calls) = 1
    /\ \A i \in calls :
         /\ transaction[i].address = "ours"
         /\ transaction[i].entryPoint \in {"submitInternal", "submitWhitehat"}

(* The proof of work is right and the transaction is allowed: it is balanced,
   signed and submitted. *)
Sponsored(h, transaction) ==
  /\ At(h, "pay")
  /\ assertSponsoredContractCall(transaction)
  /\ Reply(h, [NoAnswer EXCEPT !.paid = {transaction}])
  /\ UNCHANGED cliVars

-----------------------------------------------------------------------------

(* waitForIssuerShutdown: the server closes when the requests are answered. *)
ServerClosed ==
  /\ In("closing")
  /\ \A h \in Handlers : At(h, "idle")
  /\ Goto("finally")
  /\ UNCHANGED <<files, chain, made, misread, routesVars>>

(* The process dies: vaults and ledger stay as they are. *)
ProcessCrash ==
  /\ ~In("off")
  /\ cli' = Off
  /\ handler' = [h \in Handlers |-> NoRequest]
  /\ answer' = NoAnswer
  /\ UNCHANGED <<files, chain, made, misread>>

RoutesStep ==
  \/ ServerClosed
  \/ \E h \in Handlers :
       \/ Admitted(h) \/ Rejected(h) \/ ContactFound(h) \/ AskLedger(h)
       \/ Approve(h) \/ AlreadyApproved(h)
       \/ \E text \in Texts : Moderated(h, text)
       \/ \E transaction \in Transactions : Sponsored(h, transaction)

RoutesClients == \E h \in Handlers, route \in Routes : Arrive(h, route)

=============================================================================
